---- MODULE Spec2Model ----
(***************************************************************************)
(* The ya6502e core (my6502_reset / my6502_step) with the host of main.c:  *)
(* a 64 KiB byte array behind the two bus callbacks.  The C code is        *)
(* sequential and works on global registers; every routine is an operator  *)
(* from a machine state record s to the machine state after it (or to a    *)
(* pair [s, v] when the routine also returns a value).                     *)
(***************************************************************************)
EXTENDS Integers, Sequences, FiniteSets, TLC

VARIABLES my_pc, my_ac, my_x, my_y, my_sr, my_sp,  \* the registers
          mem,      \* host memory: the bytes that differ from the zero fill
          bus,      \* bus accesses issued by the last call, in order
          halted,   \* an assert(0) has aborted the process
          last,     \* the last call: "poweron", "running", "reset" or "step"
          pre,      \* registers and memory just before the last call
          start,    \* registers and memory when the current run began
          ncalls    \* number of my6502_reset / my6502_step calls so far

vars == <<my_pc, my_ac, my_x, my_y, my_sr, my_sp, mem, bus, halted, last,
          pre, start, ncalls>>

(* ---------------------------- integer types --------------------------- *)
Byte == 0..255
U8(v) == v % 256
U16(v) == v % 65536
Bit(v, i) == (v \div (2 ^ i)) % 2

\* The C operators &, | and ^ on values below 2^16.
RECURSIVE BitAnd(_, _)
BitAnd(a, b) ==
  IF a = 0 \/ b = 0 THEN 0
  ELSE (a % 2) * (b % 2) + 2 * BitAnd(a \div 2, b \div 2)
BitOr(a, b) == a + b - BitAnd(a, b)
BitXor(a, b) == a + b - 2 * BitAnd(a, b)
\* mutant: the offset taken without the (int8_t) cast
Int8_nocast(v) == v
\* (int8_t)v for a byte v
Int8(v) == IF v >= 128 THEN v - 256 ELSE v

(* ------------------------------ constants ----------------------------- *)
SR_FLAG_NEGATIVE == 128
SR_FLAG_OVERFLOW == 64
SR_FLAG_UNUSED == 32
SR_FLAG_BREAK == 16
SR_FLAG_DECIMAL == 8
SR_FLAG_INTERRUPT == 4
SR_FLAG_ZERO == 2
SR_FLAG_CARRY == 1
STACK_OFFSET == 256
IRQ_OFFSET == 65534
RESET_SP == 253

IMMEDIATE == 0
ABSOLUTE == 1
ABSOLUTE_X == 2
ABSOLUTE_Y == 3
ACCUMULATOR == 4
RELATIVE == 5
INDIRECT == 6
INDIRECT_X == 7
INDIRECT_Y == 8
ZEROPAGE == 9
ZEROPAGE_X == 10
ZEROPAGE_Y == 11

(* ------------------------------ the host ------------------------------ *)
\* my6502_mem is a static array, zero filled, then overwritten by the image.
Peek(m, a) == IF a \in DOMAIN m THEN m[a] ELSE 0
Store(m, a, v) == [x \in (DOMAIN m) \cup {a} |-> IF x = a THEN v ELSE m[x]]

\* uint8_t my6502_read(uint16_t address): the value is Peek(s.mem, address)
my6502_read(s, address) ==
  [s EXCEPT !.bus = Append(@, <<"rd", address, Peek(s.mem, address)>>)]
my6502_write(s, address, value) ==
  [s EXCEPT !.mem = Store(@, address, value),
            !.bus = Append(@, <<"wr", address, value>>)]

(* ------------------------- status register ---------------------------- *)
SR_CLR(s, bit) == [s EXCEPT !.sr = BitAnd(@, 255 - bit)]
SR_SET(s, bit) == [s EXCEPT !.sr = BitOr(@, bit)]
SR_IS_SET(s, bit) == BitAnd(s.sr, bit) # 0

\* mutant: the reset that sets the I flag (the FIXME of my6502_reset)
my6502_reset_setI(s, pc) ==
  [s EXCEPT !.pc = pc, !.ac = 0, !.x = 0, !.y = 0, !.sp = RESET_SP,
            !.sr = BitOr(SR_FLAG_UNUSED, SR_FLAG_INTERRUPT)]

my6502_reset(s, pc) ==
  [s EXCEPT !.pc = pc, !.ac = 0, !.x = 0, !.y = 0, !.sp = RESET_SP,
            !.sr = SR_FLAG_UNUSED]

my_update_sr(s, value, flags) ==
  LET s1 == IF BitAnd(flags, SR_FLAG_NEGATIVE) # 0
            THEN IF BitAnd(value, 128) # 0 THEN SR_SET(s, SR_FLAG_NEGATIVE)
                                           ELSE SR_CLR(s, SR_FLAG_NEGATIVE)
            ELSE s
  IN IF BitAnd(flags, SR_FLAG_ZERO) # 0
     THEN IF value = 0 THEN SR_SET(s1, SR_FLAG_ZERO)
                       ELSE SR_CLR(s1, SR_FLAG_ZERO)
     ELSE s1

NZ == BitOr(SR_FLAG_NEGATIVE, SR_FLAG_ZERO)

my_update_sr_with_carry(s, reg_value, flags, carry_value) ==
  LET s1 == my_update_sr(s, reg_value, flags)
  IN IF carry_value # 0 THEN SR_SET(s1, SR_FLAG_CARRY)
                        ELSE SR_CLR(s1, SR_FLAG_CARRY)

(* ------------------------------- stack -------------------------------- *)
\* mutant: the push that decrements before it writes (--my_sp)
my_push_predec(s, value) ==
  my6502_write([s EXCEPT !.sp = U8(@ - 1)], U16(STACK_OFFSET + U8(s.sp - 1)), value)

\* my6502_write(STACK_OFFSET + my_sp--, value)
my_push(s, value) ==
  my6502_write([s EXCEPT !.sp = U8(@ - 1)], U16(STACK_OFFSET + s.sp), value)

\* my6502_read(STACK_OFFSET + ++my_sp); the byte read is PopValue(s)
\* mutant: the pull address computed without the 8-bit wrap of ++my_sp
PopAddr_nowrap(s) == U16(STACK_OFFSET + s.sp + 1)
PopAddr(s) == U16(STACK_OFFSET + U8(s.sp + 1))
PopValue(s) == Peek(s.mem, PopAddr(s))
my_pop(s) == my6502_read([s EXCEPT !.sp = U8(@ + 1)], PopAddr(s))

(* -------------------------- addressing modes -------------------------- *)
\* Reads two bytes at reg, reg + 1 (16-bit increments); returns the address
\* read and the advanced register.
\* mutant: the second byte read from the same page (the hardware's JMP
\* (indirect) page wrap)
my_read_addr_from_mem_pagewrap(s, reg) ==
  LET lo == Peek(s.mem, reg)
      r1 == ((reg \div 256) * 256) + ((reg + 1) % 256)
      s1 == my6502_read(s, reg)
      hi == Peek(s1.mem, r1)
      s2 == my6502_read(s1, r1)
  IN [s |-> s2, addr |-> BitOr(lo, hi * 256), reg |-> U16(reg + 2)]

\* mutant: the two bytes read high byte first
my_read_addr_from_mem_hi_first(s, reg) ==
  LET lo == Peek(s.mem, reg)
      r1 == U16(reg + 1)
      hi == Peek(s.mem, r1)
      s1 == my6502_read(s, r1)
      s2 == my6502_read(s1, reg)
  IN [s |-> s2, addr |-> BitOr(lo, hi * 256), reg |-> U16(r1 + 1)]

my_read_addr_from_mem(s, reg) ==
  LET lo == Peek(s.mem, reg)
      r1 == U16(reg + 1)
      s1 == my6502_read(s, reg)
      hi == Peek(s1.mem, r1)
      s2 == my6502_read(s1, r1)
  IN [s |-> s2, addr |-> BitOr(lo, hi * 256), reg |-> U16(r1 + 1)]

\* mutant: the operand fetch whose PC increment does not wrap
FetchByte_nowrap(s) ==
  [s |-> [my6502_read(s, s.pc) EXCEPT !.pc = @ + 1],
   v |-> Peek(s.mem, s.pc)]

\* A one byte operand fetch at PC: my6502_read(my_pc++)
FetchByte(s) ==
  [s |-> [my6502_read(s, s.pc) EXCEPT !.pc = U16(@ + 1)],
   v |-> Peek(s.mem, s.pc)]

\* mutant: zero page indexing without the & 0xFF
my_read_addr_nowrap(s, mode) ==
  CASE mode = ABSOLUTE ->
         LET r == my_read_addr_from_mem(s, s.pc)
         IN [s |-> [r.s EXCEPT !.pc = r.reg], addr |-> r.addr]
    [] mode = ABSOLUTE_X ->
         LET r == my_read_addr_from_mem(s, s.pc)
         IN [s |-> [r.s EXCEPT !.pc = r.reg], addr |-> U16(r.addr + s.x)]
    [] mode = ABSOLUTE_Y ->
         LET r == my_read_addr_from_mem(s, s.pc)
         IN [s |-> [r.s EXCEPT !.pc = r.reg], addr |-> U16(r.addr + s.y)]
    [] mode = RELATIVE ->
         LET f == FetchByte(s)
         IN [s |-> f.s, addr |-> U16(f.s.pc + Int8(f.v))]
    [] mode = INDIRECT ->
         LET r == my_read_addr_from_mem(s, s.pc)
             q == my_read_addr_from_mem([r.s EXCEPT !.pc = r.reg], r.addr)
         IN [s |-> q.s, addr |-> q.addr]
    [] mode = INDIRECT_X ->
         LET f == FetchByte(s)
             q == my_read_addr_from_mem(f.s, BitAnd(f.v + s.x, 255))
         IN [s |-> q.s, addr |-> q.addr]
    [] mode = INDIRECT_Y ->
         LET f == FetchByte(s)
             q == my_read_addr_from_mem(f.s, f.v)
         IN [s |-> q.s, addr |-> U16(q.addr + s.y)]
    [] mode = ZEROPAGE ->
         LET f == FetchByte(s) IN [s |-> f.s, addr |-> f.v]
    [] mode = ZEROPAGE_X ->
         LET f == FetchByte(s) IN [s |-> f.s, addr |-> f.v + s.x]
    [] mode = ZEROPAGE_Y ->
         LET f == FetchByte(s) IN [s |-> f.s, addr |-> f.v + s.y]
    [] OTHER -> [s |-> [s EXCEPT !.halted = TRUE], addr |-> 0]

my_read_addr(s, mode) ==
  CASE mode = ABSOLUTE ->
         LET r == my_read_addr_from_mem(s, s.pc)
         IN [s |-> [r.s EXCEPT !.pc = r.reg], addr |-> r.addr]
    [] mode = ABSOLUTE_X ->
         LET r == my_read_addr_from_mem(s, s.pc)
         IN [s |-> [r.s EXCEPT !.pc = r.reg], addr |-> U16(r.addr + s.x)]
    [] mode = ABSOLUTE_Y ->
         LET r == my_read_addr_from_mem(s, s.pc)
         IN [s |-> [r.s EXCEPT !.pc = r.reg], addr |-> U16(r.addr + s.y)]
    [] mode = RELATIVE ->
         LET f == FetchByte(s)
         IN [s |-> f.s, addr |-> U16(f.s.pc + Int8(f.v))]
    [] mode = INDIRECT ->
         LET r == my_read_addr_from_mem(s, s.pc)
             q == my_read_addr_from_mem([r.s EXCEPT !.pc = r.reg], r.addr)
         IN [s |-> q.s, addr |-> q.addr]
    [] mode = INDIRECT_X ->
         LET f == FetchByte(s)
             q == my_read_addr_from_mem(f.s, BitAnd(f.v + s.x, 255))
         IN [s |-> q.s, addr |-> q.addr]
    [] mode = INDIRECT_Y ->
         LET f == FetchByte(s)
             q == my_read_addr_from_mem(f.s, f.v)
         IN [s |-> q.s, addr |-> U16(q.addr + s.y)]
    [] mode = ZEROPAGE ->
         LET f == FetchByte(s) IN [s |-> f.s, addr |-> f.v]
    [] mode = ZEROPAGE_X ->
         LET f == FetchByte(s) IN [s |-> f.s, addr |-> BitAnd(f.v + s.x, 255)]
    [] mode = ZEROPAGE_Y ->
         LET f == FetchByte(s) IN [s |-> f.s, addr |-> BitAnd(f.v + s.y, 255)]
    [] OTHER -> [s |-> [s EXCEPT !.halted = TRUE], addr |-> 0]

\* The 32-bit word of my_read_op, value | mode << 8 | addr << 16, kept as
\* its two 16-bit halves: hi = bits 16..31, lo = bits 0..15.
\* (addr << 16 is computed in int; gcc defines the shift into the sign bit
\* as the two's complement result, so the uint32_t returned is this word.)
PackOp(addr, mode, value) == [hi |-> addr, lo |-> BitOr(mode * 256, value)]
\* (uint8_t)op: the conversion at a call of a handler taking uint8_t
OpByte(op) == op.lo % 256

my_read_op(s, mode) ==
  CASE mode \in {ABSOLUTE, ABSOLUTE_X, ABSOLUTE_Y, INDIRECT_X, INDIRECT_Y,
                 ZEROPAGE, ZEROPAGE_X, ZEROPAGE_Y} ->
         LET r == my_read_addr(s, mode)
         IN [s |-> my6502_read(r.s, r.addr),
             op |-> PackOp(r.addr, mode, Peek(r.s.mem, r.addr))]
    [] mode = IMMEDIATE ->
         [s |-> [my6502_read(s, s.pc) EXCEPT !.pc = U16(@ + 1)],
          op |-> PackOp(s.pc, mode, Peek(s.mem, s.pc))]
    [] mode = ACCUMULATOR ->
         [s |-> s, op |-> PackOp(0, mode, s.ac)]
    [] OTHER -> [s |-> [s EXCEPT !.halted = TRUE], op |-> PackOp(0, 0, 0)]

\* mutant: the write-back that always goes to the accumulator
my_write_op_to_ac(s, op, value) == [s EXCEPT !.ac = value]

my_write_op(s, op, value) ==
  LET mode == (op.lo \div 256) % 256
      addr == op.hi
  IN IF mode # ACCUMULATOR THEN my6502_write(s, addr, value)
                           ELSE [s EXCEPT !.ac = value]

(* ----------------------- instruction primitives ----------------------- *)
\* Handlers with a uint8_t parameter take the low byte of my_read_op's word
\* (the implicit conversion at the call); handlers with a uint32_t
\* parameter take the word itself.
\* mutant: the addition that drops the carry-in
my_adc_nocarry(s, value) ==
  LET same_sign == BitAnd(s.ac, 128) = BitAnd(value, 128)
      result == U16(s.ac + value)
      s1 == IF same_sign /\ BitAnd(result, 128) # BitAnd(value, 128)
            THEN SR_SET(s, SR_FLAG_OVERFLOW)
            ELSE SR_CLR(s, SR_FLAG_OVERFLOW)
      s2 == [s1 EXCEPT !.ac = U8(result)]
  IN my_update_sr_with_carry(s2, s2.ac, NZ, IF result >= 256 THEN 1 ELSE 0)

\* mutant: the addition that adjusts the low digit when D is set
my_adc_decimal(s, value) ==
  LET same_sign == BitAnd(s.ac, 128) = BitAnd(value, 128)
      c == IF SR_IS_SET(s, SR_FLAG_CARRY) THEN 1 ELSE 0
      adj == IF SR_IS_SET(s, SR_FLAG_DECIMAL) /\ (s.ac % 16) + (value % 16) + c > 9
             THEN 6 ELSE 0
      result == U16(s.ac + value + c + adj)
      s1 == IF same_sign /\ BitAnd(result, 128) # BitAnd(value, 128)
            THEN SR_SET(s, SR_FLAG_OVERFLOW)
            ELSE SR_CLR(s, SR_FLAG_OVERFLOW)
      s2 == [s1 EXCEPT !.ac = U8(result)]
  IN my_update_sr_with_carry(s2, s2.ac, NZ, IF result >= 256 THEN 1 ELSE 0)

my_adc(s, value) ==
  LET same_sign == BitAnd(s.ac, 128) = BitAnd(value, 128)
      result == U16(s.ac + value + (IF SR_IS_SET(s, SR_FLAG_CARRY) THEN 1 ELSE 0))
      s1 == IF same_sign /\ BitAnd(result, 128) # BitAnd(value, 128)
            THEN SR_SET(s, SR_FLAG_OVERFLOW)
            ELSE SR_CLR(s, SR_FLAG_OVERFLOW)
      s2 == [s1 EXCEPT !.ac = U8(result)]
  IN my_update_sr_with_carry(s2, s2.ac, NZ, IF result >= 256 THEN 1 ELSE 0)

my_and(s, value) ==
  LET s1 == [s EXCEPT !.ac = BitAnd(@, value)] IN my_update_sr(s1, s1.ac, NZ)

my_asl(s, op) ==
  LET value == OpByte(op)
      msb == BitAnd(value, 128)
      v == U8(value * 2)
  IN my_write_op(my_update_sr_with_carry(s, v, NZ, msb), op, v)

my_bcs(s, addr) == IF SR_IS_SET(s, SR_FLAG_CARRY) THEN [s EXCEPT !.pc = addr] ELSE s
my_bcc(s, addr) == IF ~SR_IS_SET(s, SR_FLAG_CARRY) THEN [s EXCEPT !.pc = addr] ELSE s
my_bne(s, addr) == IF ~SR_IS_SET(s, SR_FLAG_ZERO) THEN [s EXCEPT !.pc = addr] ELSE s
my_beq(s, addr) == IF SR_IS_SET(s, SR_FLAG_ZERO) THEN [s EXCEPT !.pc = addr] ELSE s
my_bmi(s, addr) == IF SR_IS_SET(s, SR_FLAG_NEGATIVE) THEN [s EXCEPT !.pc = addr] ELSE s
my_bpl(s, addr) == IF ~SR_IS_SET(s, SR_FLAG_NEGATIVE) THEN [s EXCEPT !.pc = addr] ELSE s
my_bvc(s, addr) == IF ~SR_IS_SET(s, SR_FLAG_OVERFLOW) THEN [s EXCEPT !.pc = addr] ELSE s
my_bvs(s, addr) == IF SR_IS_SET(s, SR_FLAG_OVERFLOW) THEN [s EXCEPT !.pc = addr] ELSE s

\* mutant: the test whose N and V come from AC & value
my_bit_nv_of_and(s, value) ==
  LET t == BitAnd(s.ac, value)
      s1 == IF BitAnd(t, SR_FLAG_NEGATIVE) # 0
            THEN SR_SET(s, SR_FLAG_NEGATIVE) ELSE SR_CLR(s, SR_FLAG_NEGATIVE)
      s2 == IF BitAnd(t, SR_FLAG_OVERFLOW) # 0
            THEN SR_SET(s1, SR_FLAG_OVERFLOW) ELSE SR_CLR(s1, SR_FLAG_OVERFLOW)
  IN IF t # 0 THEN SR_CLR(s2, SR_FLAG_ZERO) ELSE SR_SET(s2, SR_FLAG_ZERO)

my_bit(s, value) ==
  LET s1 == IF BitAnd(value, SR_FLAG_NEGATIVE) # 0
            THEN SR_SET(s, SR_FLAG_NEGATIVE) ELSE SR_CLR(s, SR_FLAG_NEGATIVE)
      s2 == IF BitAnd(value, SR_FLAG_OVERFLOW) # 0
            THEN SR_SET(s1, SR_FLAG_OVERFLOW) ELSE SR_CLR(s1, SR_FLAG_OVERFLOW)
  IN IF BitAnd(s.ac, value) # 0 THEN SR_CLR(s2, SR_FLAG_ZERO)
                                ELSE SR_SET(s2, SR_FLAG_ZERO)

\* mutant: the BRK that sets I before it pushes the status copy
my_brk_sei_first(s) ==
  LET return_addr == U16(s.pc + 1)
      s1 == my_push(s, return_addr \div 256)
      s2 == SR_SET(my_push(s1, U8(return_addr)), SR_FLAG_INTERRUPT)
      s3 == my_push(s2, BitOr(s2.sr, SR_FLAG_BREAK))
      lo == Peek(s3.mem, IRQ_OFFSET)
      s4 == my6502_read(s3, IRQ_OFFSET)
      hi == Peek(s4.mem, U16(IRQ_OFFSET + 1))
      s5 == my6502_read(s4, U16(IRQ_OFFSET + 1))
  IN [s5 EXCEPT !.pc = BitOr(lo, hi * 256)]

my_brk(s) ==
  LET return_addr == U16(s.pc + 1)
      s1 == my_push(s, return_addr \div 256)
      s2 == my_push(s1, U8(return_addr))
      s3 == my_push(s2, BitOr(s2.sr, SR_FLAG_BREAK))
      lo == Peek(s3.mem, IRQ_OFFSET)
      s4 == my6502_read(s3, IRQ_OFFSET)
      hi == Peek(s4.mem, U16(IRQ_OFFSET + 1))
      s5 == my6502_read(s4, U16(IRQ_OFFSET + 1))
  IN SR_SET([s5 EXCEPT !.pc = BitOr(lo, hi * 256)], SR_FLAG_INTERRUPT)

my_clc(s) == SR_CLR(s, SR_FLAG_CARRY)
my_cld(s) == SR_CLR(s, SR_FLAG_DECIMAL)
my_cli(s) == SR_CLR(s, SR_FLAG_INTERRUPT)
my_clv(s) == SR_CLR(s, SR_FLAG_OVERFLOW)

\* mutant: the compare whose carry is a strict greater-than
my_cmp_strict(s, value) ==
  my_update_sr_with_carry(s, U8(s.ac - value), NZ, IF s.ac > value THEN 1 ELSE 0)
my_cmp(s, value) ==
  my_update_sr_with_carry(s, U8(s.ac - value), NZ, IF s.ac >= value THEN 1 ELSE 0)
my_cpx(s, value) ==
  my_update_sr_with_carry(s, U8(s.x - value), NZ, IF s.x >= value THEN 1 ELSE 0)
my_cpy(s, value) ==
  my_update_sr_with_carry(s, U8(s.y - value), NZ, IF s.y >= value THEN 1 ELSE 0)

my_dec(s, addr) ==
  LET value == U8(Peek(s.mem, addr) - 1)
  IN my6502_write(my_update_sr(my6502_read(s, addr), value, NZ), addr, value)
my_dex(s) == LET s1 == [s EXCEPT !.x = U8(@ - 1)] IN my_update_sr(s1, s1.x, NZ)
my_dey(s) == LET s1 == [s EXCEPT !.y = U8(@ - 1)] IN my_update_sr(s1, s1.y, NZ)

my_eor(s, value) ==
  LET s1 == [s EXCEPT !.ac = BitXor(@, value)] IN my_update_sr(s1, s1.ac, NZ)

my_jmp(s, addr) == [s EXCEPT !.pc = addr]

\* mutant: the call that pushes the low byte first
my_jsr_lo_first(s, addr) ==
  LET old_pc == U16(s.pc - 1)
      s1 == my_push(s, U8(old_pc))
      s2 == my_push(s1, old_pc \div 256)
  IN [s2 EXCEPT !.pc = addr]

my_jsr(s, addr) ==
  LET old_pc == U16(s.pc - 1)
      s1 == my_push(s, old_pc \div 256)
      s2 == my_push(s1, U8(old_pc))
  IN [s2 EXCEPT !.pc = addr]

\* mutant: the increment whose flags come from the value read
my_inc_flags_of_old(s, addr) ==
  LET value == U8(Peek(s.mem, addr) + 1)
  IN my6502_write(my_update_sr(my6502_read(s, addr), Peek(s.mem, addr), NZ),
                  addr, value)
my_inc(s, addr) ==
  LET value == U8(Peek(s.mem, addr) + 1)
  IN my6502_write(my_update_sr(my6502_read(s, addr), value, NZ), addr, value)
my_inx(s) == LET s1 == [s EXCEPT !.x = U8(@ + 1)] IN my_update_sr(s1, s1.x, NZ)
my_iny(s) == LET s1 == [s EXCEPT !.y = U8(@ + 1)] IN my_update_sr(s1, s1.y, NZ)

\* mutant: the load that also sets C from the zero test
my_lda_updates_c(s, value) ==
  LET s1 == [s EXCEPT !.ac = value]
  IN my_update_sr_with_carry(s1, s1.ac, NZ, IF value = 0 THEN 1 ELSE 0)
my_lda(s, value) == LET s1 == [s EXCEPT !.ac = value] IN my_update_sr(s1, s1.ac, NZ)
my_ldx(s, value) == LET s1 == [s EXCEPT !.x = value] IN my_update_sr(s1, s1.x, NZ)
my_ldy(s, value) == LET s1 == [s EXCEPT !.y = value] IN my_update_sr(s1, s1.y, NZ)

my_lsr(s, op) ==
  LET value == OpByte(op)
      lsb == BitAnd(value, 1)
      v == value \div 2
  IN my_write_op(my_update_sr_with_carry(s, v, NZ, lsb), op, v)

\* mutant: the NOP that makes the hardware's dummy read of the next byte
my_nop_dummy_read(s) == my6502_read(s, s.pc)
my_nop(s) == s

my_ora(s, value) ==
  LET s1 == [s EXCEPT !.ac = BitOr(@, value)] IN my_update_sr(s1, s1.ac, NZ)

\* mutant: the rotate left that shifts a zero in
my_rol_zero_in(s, op) ==
  LET value == OpByte(op)
      msb == BitAnd(value, 128)
      v == U8(value * 2)
  IN my_write_op(my_update_sr_with_carry(s, v, NZ, msb), op, v)
my_rol(s, op) ==
  LET value == OpByte(op)
      msb == BitAnd(value, 128)
      v == U8(value * 2 + BitAnd(s.sr, SR_FLAG_CARRY))
  IN my_write_op(my_update_sr_with_carry(s, v, NZ, msb), op, v)

my_ror(s, op) ==
  LET value == OpByte(op)
      lsb == BitAnd(value, 1)
      v == U8(value \div 2 + (IF BitAnd(s.sr, SR_FLAG_CARRY) # 0 THEN 128 ELSE 0))
  IN my_write_op(my_update_sr_with_carry(s, v, NZ, lsb), op, v)

\* mutant: the return from interrupt that adds 1 to PC as RTS does
my_rti_plus1(s) ==
  LET s1 == [my_pop(s) EXCEPT !.sr = BitOr(PopValue(s), SR_FLAG_BREAK)]
      s2 == [my_pop(s1) EXCEPT !.pc = PopValue(s1)]
  IN [my_pop(s2) EXCEPT !.pc = U16(BitOr(s2.pc, PopValue(s2) * 256) + 1)]

my_rti(s) ==
  LET s1 == [my_pop(s) EXCEPT !.sr = BitOr(PopValue(s), SR_FLAG_BREAK)]
      s2 == [my_pop(s1) EXCEPT !.pc = PopValue(s1)]
  IN [my_pop(s2) EXCEPT !.pc = BitOr(s2.pc, PopValue(s2) * 256)]

\* mutant: the return that omits the my_pc++
my_rts_noinc(s) ==
  LET s1 == [my_pop(s) EXCEPT !.pc = PopValue(s)]
  IN [my_pop(s1) EXCEPT !.pc = BitOr(s1.pc, PopValue(s1) * 256)]

my_rts(s) ==
  LET s1 == [my_pop(s) EXCEPT !.pc = PopValue(s)]
      s2 == [my_pop(s1) EXCEPT !.pc = BitOr(s1.pc, PopValue(s1) * 256)]
  IN [s2 EXCEPT !.pc = U16(@ + 1)]

\* mutant: the push of X in place of the accumulator
my_pha_pushx(s) == my_push(s, s.x)
my_pha(s) == my_push(s, s.ac)
\* mutant: the push of SR that also sets B in the register
my_php_sets_b(s) ==
  SR_SET(my_push(s, BitOr(s.sr, SR_FLAG_BREAK)), SR_FLAG_BREAK)
my_php(s) == my_push(s, BitOr(s.sr, SR_FLAG_BREAK))
\* mutant: the pull that leaves N and Z alone
my_pla_noflags(s) == [my_pop(s) EXCEPT !.ac = PopValue(s)]
my_pla(s) ==
  LET s1 == [my_pop(s) EXCEPT !.ac = PopValue(s)] IN my_update_sr(s1, s1.ac, NZ)
\* mutant: the pull that stores the stack byte as it is
my_plp_raw(s) == [my_pop(s) EXCEPT !.sr = PopValue(s)]
my_plp(s) == [my_pop(s) EXCEPT !.sr = BitOr(PopValue(s), SR_FLAG_UNUSED)]

\* mutant: the subtraction that negates (-value) instead of complementing
my_sbc_negate(s, value) == my_adc(s, U8(-value))

\* my_adc(~value): ~value is converted to the uint8_t parameter
\* mutant: the subtraction that takes C as a borrow (a - m - c)
my_sbc_borrow_in(s, value) ==
  my_adc([s EXCEPT !.sr = BitXor(@, SR_FLAG_CARRY)], U8(-value - 1))
my_sbc(s, value) == my_adc(s, U8(-value - 1))

my_sec(s) == SR_SET(s, SR_FLAG_CARRY)
my_sed(s) == SR_SET(s, SR_FLAG_DECIMAL)
my_sei(s) == SR_SET(s, SR_FLAG_INTERRUPT)

\* mutant: the store that reads its target before writing it
my_sta_reads_first(s, addr) == my6502_write(my6502_read(s, addr), addr, s.ac)
my_sta(s, addr) == my6502_write(s, addr, s.ac)
my_stx(s, addr) == my6502_write(s, addr, s.x)
my_sty(s, addr) == my6502_write(s, addr, s.y)

my_tax(s) == LET s1 == [s EXCEPT !.x = s.ac] IN my_update_sr(s1, s1.x, NZ)
\* mutant: the transfer to Y that also loads SP
my_tay_moves_sp(s) ==
  LET s1 == [s EXCEPT !.y = s.ac, !.sp = s.ac] IN my_update_sr(s1, s1.y, NZ)
my_tay(s) == LET s1 == [s EXCEPT !.y = s.ac] IN my_update_sr(s1, s1.y, NZ)
my_tsx(s) == LET s1 == [s EXCEPT !.x = s.sp] IN my_update_sr(s1, s1.x, NZ)
my_txa(s) == LET s1 == [s EXCEPT !.ac = s.x] IN my_update_sr(s1, s1.ac, NZ)
\* mutant: the transfer to SP that updates N and Z like the others
my_txs_flags(s) == LET s1 == [s EXCEPT !.sp = s.x] IN my_update_sr(s1, s1.sp, NZ)
my_txs(s) == [s EXCEPT !.sp = s.x]
my_tya(s) == LET s1 == [s EXCEPT !.ac = s.y] IN my_update_sr(s1, s1.ac, NZ)

(* ------------------------------ dispatch ------------------------------ *)
\* The switch of my6502_step: opcode -> handler, how its argument is read
\* (my_read_op, my_read_addr or nothing) and the addressing mode.
OpTable ==
   0 :> [mn |-> "brk", via |-> "none", mode |-> -1] @@
   1 :> [mn |-> "ora", via |-> "op", mode |-> INDIRECT_X] @@
   5 :> [mn |-> "ora", via |-> "op", mode |-> ZEROPAGE] @@
   6 :> [mn |-> "asl", via |-> "op", mode |-> ZEROPAGE] @@
   8 :> [mn |-> "php", via |-> "none", mode |-> -1] @@
   9 :> [mn |-> "ora", via |-> "op", mode |-> IMMEDIATE] @@
   10 :> [mn |-> "asl", via |-> "op", mode |-> ACCUMULATOR] @@
   13 :> [mn |-> "ora", via |-> "op", mode |-> ABSOLUTE] @@
   14 :> [mn |-> "asl", via |-> "op", mode |-> ABSOLUTE] @@
   16 :> [mn |-> "bpl", via |-> "addr", mode |-> RELATIVE] @@
   17 :> [mn |-> "ora", via |-> "op", mode |-> INDIRECT_Y] @@
   21 :> [mn |-> "ora", via |-> "op", mode |-> ZEROPAGE_X] @@
   22 :> [mn |-> "asl", via |-> "op", mode |-> ZEROPAGE_X] @@
   24 :> [mn |-> "clc", via |-> "none", mode |-> -1] @@
   25 :> [mn |-> "ora", via |-> "op", mode |-> ABSOLUTE_Y] @@
   29 :> [mn |-> "ora", via |-> "op", mode |-> ABSOLUTE_X] @@
   30 :> [mn |-> "asl", via |-> "op", mode |-> ABSOLUTE_X] @@
   32 :> [mn |-> "jsr", via |-> "addr", mode |-> ABSOLUTE] @@
   33 :> [mn |-> "and", via |-> "op", mode |-> INDIRECT_X] @@
   36 :> [mn |-> "bit", via |-> "op", mode |-> ZEROPAGE] @@
   37 :> [mn |-> "and", via |-> "op", mode |-> ZEROPAGE] @@
   38 :> [mn |-> "rol", via |-> "op", mode |-> ZEROPAGE] @@
   40 :> [mn |-> "plp", via |-> "none", mode |-> -1] @@
   41 :> [mn |-> "and", via |-> "op", mode |-> IMMEDIATE] @@
   42 :> [mn |-> "rol", via |-> "op", mode |-> ACCUMULATOR] @@
   44 :> [mn |-> "bit", via |-> "op", mode |-> ABSOLUTE] @@
   45 :> [mn |-> "and", via |-> "op", mode |-> ABSOLUTE] @@
   46 :> [mn |-> "rol", via |-> "op", mode |-> ABSOLUTE] @@
   48 :> [mn |-> "bmi", via |-> "addr", mode |-> RELATIVE] @@
   49 :> [mn |-> "and", via |-> "op", mode |-> INDIRECT_Y] @@
   53 :> [mn |-> "and", via |-> "op", mode |-> ZEROPAGE_X] @@
   54 :> [mn |-> "rol", via |-> "op", mode |-> ZEROPAGE_X] @@
   56 :> [mn |-> "sec", via |-> "none", mode |-> -1] @@
   57 :> [mn |-> "and", via |-> "op", mode |-> ABSOLUTE_Y] @@
   61 :> [mn |-> "and", via |-> "op", mode |-> ABSOLUTE_X] @@
   62 :> [mn |-> "rol", via |-> "op", mode |-> ABSOLUTE_X] @@
   64 :> [mn |-> "rti", via |-> "none", mode |-> -1] @@
   65 :> [mn |-> "eor", via |-> "op", mode |-> INDIRECT_X] @@
   69 :> [mn |-> "eor", via |-> "op", mode |-> ZEROPAGE] @@
   70 :> [mn |-> "lsr", via |-> "op", mode |-> ZEROPAGE] @@
   72 :> [mn |-> "pha", via |-> "none", mode |-> -1] @@
   73 :> [mn |-> "eor", via |-> "op", mode |-> IMMEDIATE] @@
   74 :> [mn |-> "lsr", via |-> "op", mode |-> ACCUMULATOR] @@
   76 :> [mn |-> "jmp", via |-> "addr", mode |-> ABSOLUTE] @@
   77 :> [mn |-> "eor", via |-> "op", mode |-> ABSOLUTE] @@
   78 :> [mn |-> "lsr", via |-> "op", mode |-> ABSOLUTE] @@
   80 :> [mn |-> "bvc", via |-> "addr", mode |-> RELATIVE] @@
   81 :> [mn |-> "eor", via |-> "op", mode |-> INDIRECT_Y] @@
   85 :> [mn |-> "eor", via |-> "op", mode |-> ZEROPAGE_X] @@
   86 :> [mn |-> "lsr", via |-> "op", mode |-> ZEROPAGE_X] @@
   88 :> [mn |-> "cli", via |-> "none", mode |-> -1] @@
   89 :> [mn |-> "eor", via |-> "op", mode |-> ABSOLUTE_Y] @@
   93 :> [mn |-> "eor", via |-> "op", mode |-> ABSOLUTE_X] @@
   94 :> [mn |-> "lsr", via |-> "op", mode |-> ABSOLUTE_X] @@
   96 :> [mn |-> "rts", via |-> "none", mode |-> -1] @@
   97 :> [mn |-> "adc", via |-> "op", mode |-> INDIRECT_X] @@
   101 :> [mn |-> "adc", via |-> "op", mode |-> ZEROPAGE] @@
   102 :> [mn |-> "ror", via |-> "op", mode |-> ZEROPAGE] @@
   104 :> [mn |-> "pla", via |-> "none", mode |-> -1] @@
   105 :> [mn |-> "adc", via |-> "op", mode |-> IMMEDIATE] @@
   106 :> [mn |-> "ror", via |-> "op", mode |-> ACCUMULATOR] @@
   108 :> [mn |-> "jmp", via |-> "addr", mode |-> INDIRECT] @@
   109 :> [mn |-> "adc", via |-> "op", mode |-> ABSOLUTE] @@
   110 :> [mn |-> "ror", via |-> "op", mode |-> ABSOLUTE] @@
   112 :> [mn |-> "bvs", via |-> "addr", mode |-> RELATIVE] @@
   113 :> [mn |-> "adc", via |-> "op", mode |-> INDIRECT_Y] @@
   117 :> [mn |-> "adc", via |-> "op", mode |-> ZEROPAGE_X] @@
   118 :> [mn |-> "ror", via |-> "op", mode |-> ZEROPAGE_X] @@
   120 :> [mn |-> "sei", via |-> "none", mode |-> -1] @@
   121 :> [mn |-> "adc", via |-> "op", mode |-> ABSOLUTE_Y] @@
   125 :> [mn |-> "adc", via |-> "op", mode |-> ABSOLUTE_X] @@
   126 :> [mn |-> "ror", via |-> "op", mode |-> ABSOLUTE_X] @@
   129 :> [mn |-> "sta", via |-> "addr", mode |-> INDIRECT_X] @@
   132 :> [mn |-> "sty", via |-> "addr", mode |-> ZEROPAGE] @@
   133 :> [mn |-> "sta", via |-> "addr", mode |-> ZEROPAGE] @@
   134 :> [mn |-> "stx", via |-> "addr", mode |-> ZEROPAGE] @@
   136 :> [mn |-> "dey", via |-> "none", mode |-> -1] @@
   138 :> [mn |-> "txa", via |-> "none", mode |-> -1] @@
   140 :> [mn |-> "sty", via |-> "addr", mode |-> ABSOLUTE] @@
   141 :> [mn |-> "sta", via |-> "addr", mode |-> ABSOLUTE] @@
   142 :> [mn |-> "stx", via |-> "addr", mode |-> ABSOLUTE] @@
   144 :> [mn |-> "bcc", via |-> "addr", mode |-> RELATIVE] @@
   145 :> [mn |-> "sta", via |-> "addr", mode |-> INDIRECT_Y] @@
   148 :> [mn |-> "sty", via |-> "addr", mode |-> ZEROPAGE_X] @@
   149 :> [mn |-> "sta", via |-> "addr", mode |-> ZEROPAGE_X] @@
   150 :> [mn |-> "stx", via |-> "addr", mode |-> ZEROPAGE_Y] @@
   152 :> [mn |-> "tya", via |-> "none", mode |-> -1] @@
   153 :> [mn |-> "sta", via |-> "addr", mode |-> ABSOLUTE_Y] @@
   154 :> [mn |-> "txs", via |-> "none", mode |-> -1] @@
   157 :> [mn |-> "sta", via |-> "addr", mode |-> ABSOLUTE_X] @@
   160 :> [mn |-> "ldy", via |-> "op", mode |-> IMMEDIATE] @@
   161 :> [mn |-> "lda", via |-> "op", mode |-> INDIRECT_X] @@
   162 :> [mn |-> "ldx", via |-> "op", mode |-> IMMEDIATE] @@
   164 :> [mn |-> "ldy", via |-> "op", mode |-> ZEROPAGE] @@
   165 :> [mn |-> "lda", via |-> "op", mode |-> ZEROPAGE] @@
   166 :> [mn |-> "ldx", via |-> "op", mode |-> ZEROPAGE] @@
   168 :> [mn |-> "tay", via |-> "none", mode |-> -1] @@
   169 :> [mn |-> "lda", via |-> "op", mode |-> IMMEDIATE] @@
   170 :> [mn |-> "tax", via |-> "none", mode |-> -1] @@
   172 :> [mn |-> "ldy", via |-> "op", mode |-> ABSOLUTE] @@
   173 :> [mn |-> "lda", via |-> "op", mode |-> ABSOLUTE] @@
   174 :> [mn |-> "ldx", via |-> "op", mode |-> ABSOLUTE] @@
   176 :> [mn |-> "bcs", via |-> "addr", mode |-> RELATIVE] @@
   177 :> [mn |-> "lda", via |-> "op", mode |-> INDIRECT_Y] @@
   180 :> [mn |-> "ldy", via |-> "op", mode |-> ZEROPAGE_X] @@
   181 :> [mn |-> "lda", via |-> "op", mode |-> ZEROPAGE_X] @@
   182 :> [mn |-> "ldx", via |-> "op", mode |-> ZEROPAGE_Y] @@
   184 :> [mn |-> "clv", via |-> "none", mode |-> -1] @@
   185 :> [mn |-> "lda", via |-> "op", mode |-> ABSOLUTE_Y] @@
   186 :> [mn |-> "tsx", via |-> "none", mode |-> -1] @@
   188 :> [mn |-> "ldy", via |-> "op", mode |-> ABSOLUTE_X] @@
   189 :> [mn |-> "lda", via |-> "op", mode |-> ABSOLUTE_X] @@
   190 :> [mn |-> "ldx", via |-> "op", mode |-> ABSOLUTE_Y] @@
   192 :> [mn |-> "cpy", via |-> "op", mode |-> IMMEDIATE] @@
   193 :> [mn |-> "cmp", via |-> "op", mode |-> INDIRECT_X] @@
   196 :> [mn |-> "cpy", via |-> "op", mode |-> ZEROPAGE] @@
   197 :> [mn |-> "cmp", via |-> "op", mode |-> ZEROPAGE] @@
   198 :> [mn |-> "dec", via |-> "addr", mode |-> ZEROPAGE] @@
   200 :> [mn |-> "iny", via |-> "none", mode |-> -1] @@
   201 :> [mn |-> "cmp", via |-> "op", mode |-> IMMEDIATE] @@
   202 :> [mn |-> "dex", via |-> "none", mode |-> -1] @@
   204 :> [mn |-> "cpy", via |-> "op", mode |-> ABSOLUTE] @@
   205 :> [mn |-> "cmp", via |-> "op", mode |-> ABSOLUTE] @@
   206 :> [mn |-> "dec", via |-> "addr", mode |-> ABSOLUTE] @@
   208 :> [mn |-> "bne", via |-> "addr", mode |-> RELATIVE] @@
   209 :> [mn |-> "cmp", via |-> "op", mode |-> INDIRECT_Y] @@
   213 :> [mn |-> "cmp", via |-> "op", mode |-> ZEROPAGE_X] @@
   214 :> [mn |-> "dec", via |-> "addr", mode |-> ZEROPAGE_X] @@
   216 :> [mn |-> "cld", via |-> "none", mode |-> -1] @@
   217 :> [mn |-> "cmp", via |-> "op", mode |-> ABSOLUTE_Y] @@
   221 :> [mn |-> "cmp", via |-> "op", mode |-> ABSOLUTE_X] @@
   222 :> [mn |-> "dec", via |-> "addr", mode |-> ABSOLUTE_X] @@
   224 :> [mn |-> "cpx", via |-> "op", mode |-> IMMEDIATE] @@
   225 :> [mn |-> "sbc", via |-> "op", mode |-> INDIRECT_X] @@
   230 :> [mn |-> "inc", via |-> "addr", mode |-> ZEROPAGE] @@
   228 :> [mn |-> "cpx", via |-> "op", mode |-> ZEROPAGE] @@
   229 :> [mn |-> "sbc", via |-> "op", mode |-> ZEROPAGE] @@
   232 :> [mn |-> "inx", via |-> "none", mode |-> -1] @@
   233 :> [mn |-> "sbc", via |-> "op", mode |-> IMMEDIATE] @@
   234 :> [mn |-> "nop", via |-> "none", mode |-> -1] @@
   236 :> [mn |-> "cpx", via |-> "op", mode |-> ABSOLUTE] @@
   237 :> [mn |-> "sbc", via |-> "op", mode |-> ABSOLUTE] @@
   238 :> [mn |-> "inc", via |-> "addr", mode |-> ABSOLUTE] @@
   240 :> [mn |-> "beq", via |-> "addr", mode |-> RELATIVE] @@
   241 :> [mn |-> "sbc", via |-> "op", mode |-> INDIRECT_Y] @@
   245 :> [mn |-> "sbc", via |-> "op", mode |-> ZEROPAGE_X] @@
   246 :> [mn |-> "inc", via |-> "addr", mode |-> ZEROPAGE_X] @@
   248 :> [mn |-> "sed", via |-> "none", mode |-> -1] @@
   249 :> [mn |-> "sbc", via |-> "op", mode |-> ABSOLUTE_Y] @@
   253 :> [mn |-> "sbc", via |-> "op", mode |-> ABSOLUTE_X] @@
   254 :> [mn |-> "inc", via |-> "addr", mode |-> ABSOLUTE_X]

\* Handlers called on the value of my_read_op(mode).
ExecOp(mn, s, op) ==
  CASE mn = "ora" -> my_ora(s, OpByte(op))
    [] mn = "and" -> my_and(s, OpByte(op))
    [] mn = "eor" -> my_eor(s, OpByte(op))
    [] mn = "adc" -> my_adc(s, OpByte(op))
    [] mn = "sbc" -> my_sbc(s, OpByte(op))
    [] mn = "cmp" -> my_cmp(s, OpByte(op))
    [] mn = "cpx" -> my_cpx(s, OpByte(op))
    [] mn = "cpy" -> my_cpy(s, OpByte(op))
    [] mn = "bit" -> my_bit(s, OpByte(op))
    [] mn = "lda" -> my_lda(s, OpByte(op))
    [] mn = "ldx" -> my_ldx(s, OpByte(op))
    [] mn = "ldy" -> my_ldy(s, OpByte(op))
    [] mn = "asl" -> my_asl(s, op)
    [] mn = "lsr" -> my_lsr(s, op)
    [] mn = "rol" -> my_rol(s, op)
    [] mn = "ror" -> my_ror(s, op)

\* Handlers called on the address of my_read_addr(mode).
ExecAddr(mn, s, addr) ==
  CASE mn = "bpl" -> my_bpl(s, addr)
    [] mn = "bmi" -> my_bmi(s, addr)
    [] mn = "bvc" -> my_bvc(s, addr)
    [] mn = "bvs" -> my_bvs(s, addr)
    [] mn = "bcc" -> my_bcc(s, addr)
    [] mn = "bcs" -> my_bcs(s, addr)
    [] mn = "bne" -> my_bne(s, addr)
    [] mn = "beq" -> my_beq(s, addr)
    [] mn = "jmp" -> my_jmp(s, addr)
    [] mn = "jsr" -> my_jsr(s, addr)
    [] mn = "sta" -> my_sta(s, addr)
    [] mn = "stx" -> my_stx(s, addr)
    [] mn = "sty" -> my_sty(s, addr)
    [] mn = "inc" -> my_inc(s, addr)
    [] mn = "dec" -> my_dec(s, addr)

\* Handlers without an argument.
ExecNone(mn, s) ==
  CASE mn = "brk" -> my_brk(s)
    [] mn = "php" -> my_php(s)
    [] mn = "plp" -> my_plp(s)
    [] mn = "pha" -> my_pha(s)
    [] mn = "pla" -> my_pla(s)
    [] mn = "rti" -> my_rti(s)
    [] mn = "rts" -> my_rts(s)
    [] mn = "clc" -> my_clc(s)
    [] mn = "sec" -> my_sec(s)
    [] mn = "cli" -> my_cli(s)
    [] mn = "sei" -> my_sei(s)
    [] mn = "cld" -> my_cld(s)
    [] mn = "sed" -> my_sed(s)
    [] mn = "clv" -> my_clv(s)
    [] mn = "dex" -> my_dex(s)
    [] mn = "dey" -> my_dey(s)
    [] mn = "inx" -> my_inx(s)
    [] mn = "iny" -> my_iny(s)
    [] mn = "tax" -> my_tax(s)
    [] mn = "tay" -> my_tay(s)
    [] mn = "tsx" -> my_tsx(s)
    [] mn = "txa" -> my_txa(s)
    [] mn = "txs" -> my_txs(s)
    [] mn = "tya" -> my_tya(s)
    [] mn = "nop" -> my_nop(s)

\* mutant: the build with NDEBUG, where the default case falls through
my6502_step_ndebug(s) ==
  LET opcode == Peek(s.mem, s.pc)
      s1 == [my6502_read(s, s.pc) EXCEPT !.pc = U16(@ + 1)]
  IN IF opcode \notin DOMAIN OpTable
     THEN s1
     ELSE LET e == OpTable[opcode]
          IN CASE e.via = "op" ->
                    LET r == my_read_op(s1, e.mode) IN ExecOp(e.mn, r.s, r.op)
               [] e.via = "addr" ->
                    LET r == my_read_addr(s1, e.mode) IN ExecAddr(e.mn, r.s, r.addr)
               [] OTHER -> ExecNone(e.mn, s1)

\* mutant: the opcode fetch that advances PC only in the handled cases
my6502_step_late_inc(s) ==
  LET opcode == Peek(s.mem, s.pc)
      s1 == [my6502_read(s, s.pc) EXCEPT !.pc = U16(@ + 1)]
  IN IF opcode \notin DOMAIN OpTable
     THEN [my6502_read(s, s.pc) EXCEPT !.halted = TRUE]
     ELSE LET e == OpTable[opcode]
          IN CASE e.via = "op" ->
                    LET r == my_read_op(s1, e.mode) IN ExecOp(e.mn, r.s, r.op)
               [] e.via = "addr" ->
                    LET r == my_read_addr(s1, e.mode) IN ExecAddr(e.mn, r.s, r.addr)
               [] OTHER -> ExecNone(e.mn, s1)

\* void my6502_step(void): fetch at PC, PC++, dispatch; the default case is
\* assert(0), which aborts the process with the registers as they are.
my6502_step(s) ==
  LET opcode == Peek(s.mem, s.pc)
      s1 == [my6502_read(s, s.pc) EXCEPT !.pc = U16(@ + 1)]
  IN IF opcode \notin DOMAIN OpTable
     THEN [s1 EXCEPT !.halted = TRUE]
     ELSE LET e == OpTable[opcode]
          IN CASE e.via = "op" ->
                    LET r == my_read_op(s1, e.mode) IN ExecOp(e.mn, r.s, r.op)
               [] e.via = "addr" ->
                    LET r == my_read_addr(s1, e.mode) IN ExecAddr(e.mn, r.s, r.addr)
               [] OTHER -> ExecNone(e.mn, s1)

(* --------------------------- the state machine ------------------------ *)
\* Bounds of the exploration.
MaxCalls == 3

\* Entry addresses handed to my6502_reset (main.c uses 0x0400).
EntryPCs == {1024, 65535}

\* The image the host loads: bytes placed from address a on (16-bit wrap).
ProgramAt(a, bytes) ==
  [x \in {U16(a + i - 1) : i \in 1..Len(bytes)} |->
     bytes[CHOOSE i \in 1..Len(bytes) : U16(a + i - 1) = x]]
\* m with the bytes of p laid over it
Overlay(m, p) ==
  [x \in (DOMAIN m) \cup (DOMAIN p) |-> IF x \in DOMAIN p THEN p[x] ELSE m[x]]

Regs == [pc |-> my_pc, ac |-> my_ac, x |-> my_x, y |-> my_y, sr |-> my_sr,
         sp |-> my_sp, mem |-> mem]
\* The machine state a call starts from: the registers, the memory, an
\* empty access log.
Cur == [pc |-> my_pc, ac |-> my_ac, x |-> my_x, y |-> my_y, sr |-> my_sr,
        sp |-> my_sp, mem |-> mem, bus |-> <<>>, halted |-> FALSE]
Snapshot(r) == [pc |-> r.pc, ac |-> r.ac, x |-> r.x, y |-> r.y, sr |-> r.sr,
                sp |-> r.sp, mem |-> r.mem]
Install(r) ==
  /\ my_pc' = r.pc /\ my_ac' = r.ac /\ my_x' = r.x /\ my_y' = r.y
  /\ my_sr' = r.sr /\ my_sp' = r.sp /\ mem' = r.mem /\ bus' = r.bus
  /\ halted' = r.halted

\* The host calls my6502_reset(pc)  (main.c:112).
Reset ==
  \E pc \in EntryPCs :
    /\ ~halted /\ ncalls < MaxCalls
    /\ Install(my6502_reset(Cur, pc))
    /\ last' = "reset"
    /\ pre' = [r |-> Regs, arg |-> pc]
    /\ start' = [r |-> Snapshot(my6502_reset(Cur, pc)), ops |-> <<>>]
    /\ ncalls' = ncalls + 1

\* The host calls my6502_step()  (main.c:127), after a reset.
Step ==
  /\ ~halted /\ last # "poweron" /\ ncalls < MaxCalls
  /\ Install(my6502_step(Cur))
  /\ last' = "step"
  /\ pre' = [r |-> Regs, arg |-> -1]
  /\ start' = [start EXCEPT !.ops = Append(@, Peek(mem, my_pc))]
  /\ ncalls' = ncalls + 1

Next == Reset \/ Step

\* A run that begins in the given registers and memory.
InitWith(pcs, acs, xs, ys, sps, srs, mems, how, n) ==
  /\ my_pc \in pcs /\ my_ac \in acs /\ my_x \in xs /\ my_y \in ys
  /\ my_sp \in sps /\ my_sr \in srs /\ mem \in mems
  /\ bus = <<>> /\ halted = FALSE /\ last = how /\ ncalls = n
  /\ pre = [r |-> Regs, arg |-> -1]
  /\ start = [r |-> Regs, ops |-> <<>>]

\* Operand bytes of the images explored from power-on.
OperandBytes == {0, 1, 128, 255}

\* After construction: the registers are zero-initialised globals and the
\* host has loaded an image (main.c:108-109): one instruction at an entry
\* address, the rest of memory zero.
Init ==
  InitWith({0}, {0}, {0}, {0}, {0}, {0},
           {ProgramAt(e, <<o, b1, b2>>) :
              e \in EntryPCs, o \in Byte, b1 \in OperandBytes, b2 \in {0, 1}},
           "poweron", 0)

Spec == Init /\ [][Next]_vars

(* ------------------- runs from states in mid-execution ---------------- *)
\* Register values the runs below start from.  Every combination is a
\* state the program can be in: LDA/LDX/LDY # set AC, X, Y, TXS sets SP,
\* PLP and RTI set SR from a stack byte, JMP sets PC.

\* One instruction of any opcode byte, executed from sampled registers.
InitCpu ==
  \E e \in EntryPCs :
    InitWith({e}, {0, 129}, {0, 255}, {1}, {0, 253}, {32, 255},
             {ProgramAt(e, <<o, b1, 2>>) : o \in Byte, b1 \in {3, 255}},
             "running", 0)

SpecCpu == InitCpu /\ [][Next]_vars

(* ------------------------------- claims ------------------------------- *)
\* The opcode byte the last step fetched.
PreOp == Peek(pre.r.mem, pre.r.pc)
\* The registers other than PC are as they were before the last call.
RegsKept ==
  /\ my_ac = pre.r.ac /\ my_x = pre.r.x /\ my_y = pre.r.y
  /\ my_sp = pre.r.sp /\ my_sr = pre.r.sr

\* C1: after my6502_reset, in every state reachable through my6502_step,
\* bit 5 of SR is 1.  (Stated as claimed; the code's RTI breaks it.)
C1_Bit5AlwaysSet == last \in {"reset", "step"} => Bit(my_sr, 5) = 1

\* C2: my6502_reset(entry_pc), from any prior state, leaves PC = entry_pc,
\* AC = X = Y = 0, SP = 0xFD, SR = 0x20, and issues no bus access.
C2_ResetState ==
  last = "reset" =>
    /\ my_pc = pre.arg /\ my_ac = 0 /\ my_x = 0 /\ my_y = 0
    /\ my_sp = 253 /\ my_sr = 32
    /\ bus = <<>> /\ mem = pre.r.mem
\* a reset of a CPU whose every register differed from its reset value
C2_Witness ==
  /\ last = "reset" /\ pre.r.pc # pre.arg /\ pre.r.ac # 0 /\ pre.r.x # 0
  /\ pre.r.y # 0 /\ pre.r.sp # 253 /\ Bit(pre.r.sr, 2) = 1

\* Push and pull instructions on every stack pointer value, with data in
\* the stack page.
StackOps == {72, 8, 32, 0, 104, 40, 96, 64}
StackData == ProgramAt(510, <<17, 34, 51, 68, 85>>)
InitStack ==
  \E e \in EntryPCs :
    InitWith({e}, {129}, {0}, {0}, Byte, {32, 195},
             {Overlay(d, ProgramAt(e, <<o, 5, 4>>)) :
                o \in StackOps, d \in {<<>>, StackData}},
             "running", 0)

SpecStack == InitStack /\ [][Next]_vars

\* addresses of the bus writes (reads) of the last call, in order
BusAddrs(kind) ==
  LET acc == SelectSeq(bus, LAMBDA a : a[1] = kind)
  IN [i \in 1..Len(acc) |-> acc[i][2]]
\* n pushes from stack pointer sp: 0x100+sp, 0x100+sp-1, ...
PushAddrs(sp, n) == [i \in 1..n |-> 256 + ((sp - (i - 1)) % 256)]
\* n pulls from stack pointer sp: 0x100+sp+1, 0x100+sp+2, ...
PullAddrs(sp, n) == [i \in 1..n |-> 256 + ((sp + i) % 256)]
PushCount(o) == CASE o \in {72, 8} -> 1 [] o = 32 -> 2 [] o = 0 -> 3 [] OTHER -> 0
PullCount(o) == CASE o \in {104, 40} -> 1 [] o = 96 -> 2 [] o = 64 -> 3 [] OTHER -> 0
InStackPage(a) == a \in 256..511

\* C3: every push (PHA, PHP, JSR, BRK) writes at 0x0100+SP with the SP of
\* before the push and then decrements SP; every pull (PLA, PLP, RTS, RTI)
\* increments SP and then reads 0x0100+SP; SP wraps modulo 256, so every
\* stack access lies in 0x0100..0x01FF.  (The instruction bytes of these
\* runs lie outside the stack page, and BRK's vector reads are not stack
\* accesses.)
C3_StackDiscipline ==
  (last = "step" /\ ~InStackPage(pre.r.pc)) =>
    /\ PushCount(PreOp) > 0 =>
         /\ BusAddrs("wr") = PushAddrs(pre.r.sp, PushCount(PreOp))
         /\ my_sp = (pre.r.sp - PushCount(PreOp)) % 256
         /\ \A i \in 1..Len(BusAddrs("wr")) : InStackPage(BusAddrs("wr")[i])
    /\ PullCount(PreOp) > 0 =>
         /\ Tail(BusAddrs("rd")) = PullAddrs(pre.r.sp, PullCount(PreOp))
         /\ BusAddrs("wr") = <<>>
         /\ my_sp = (pre.r.sp + PullCount(PreOp)) % 256
         /\ \A i \in 2..Len(bus) : InStackPage(bus[i][2])
\* JSR with SP = 0x00: the pushes go to 0x0100 and 0x01FF, SP ends at 0xFE
C3_Witness ==
  /\ last = "step" /\ PreOp = 32 /\ pre.r.sp = 0 /\ my_sp = 254
  /\ BusAddrs("wr") = <<256, 511>>

\* The official NMOS 6502 encodings (masswerk.at instruction set table):
\* opcode -> mnemonic, opcode -> addressing mode (-1: implied).
OfficialMnemonic(o) ==
  CASE o \in {97, 101, 105, 109, 113, 117, 121, 125} -> "adc"
    [] o \in {33, 37, 41, 45, 49, 53, 57, 61} -> "and"
    [] o \in {6, 10, 14, 22, 30} -> "asl"
    [] o \in {144} -> "bcc"
    [] o \in {176} -> "bcs"
    [] o \in {240} -> "beq"
    [] o \in {36, 44} -> "bit"
    [] o \in {48} -> "bmi"
    [] o \in {208} -> "bne"
    [] o \in {16} -> "bpl"
    [] o \in {0} -> "brk"
    [] o \in {80} -> "bvc"
    [] o \in {112} -> "bvs"
    [] o \in {24} -> "clc"
    [] o \in {216} -> "cld"
    [] o \in {88} -> "cli"
    [] o \in {184} -> "clv"
    [] o \in {193, 197, 201, 205, 209, 213, 217, 221} -> "cmp"
    [] o \in {224, 228, 236} -> "cpx"
    [] o \in {192, 196, 204} -> "cpy"
    [] o \in {198, 206, 214, 222} -> "dec"
    [] o \in {202} -> "dex"
    [] o \in {136} -> "dey"
    [] o \in {65, 69, 73, 77, 81, 85, 89, 93} -> "eor"
    [] o \in {230, 238, 246, 254} -> "inc"
    [] o \in {232} -> "inx"
    [] o \in {200} -> "iny"
    [] o \in {76, 108} -> "jmp"
    [] o \in {32} -> "jsr"
    [] o \in {161, 165, 169, 173, 177, 181, 185, 189} -> "lda"
    [] o \in {162, 166, 174, 182, 190} -> "ldx"
    [] o \in {160, 164, 172, 180, 188} -> "ldy"
    [] o \in {70, 74, 78, 86, 94} -> "lsr"
    [] o \in {234} -> "nop"
    [] o \in {1, 5, 9, 13, 17, 21, 25, 29} -> "ora"
    [] o \in {72} -> "pha"
    [] o \in {8} -> "php"
    [] o \in {104} -> "pla"
    [] o \in {40} -> "plp"
    [] o \in {38, 42, 46, 54, 62} -> "rol"
    [] o \in {102, 106, 110, 118, 126} -> "ror"
    [] o \in {64} -> "rti"
    [] o \in {96} -> "rts"
    [] o \in {225, 229, 233, 237, 241, 245, 249, 253} -> "sbc"
    [] o \in {56} -> "sec"
    [] o \in {248} -> "sed"
    [] o \in {120} -> "sei"
    [] o \in {129, 133, 141, 145, 149, 153, 157} -> "sta"
    [] o \in {134, 142, 150} -> "stx"
    [] o \in {132, 140, 148} -> "sty"
    [] o \in {170} -> "tax"
    [] o \in {168} -> "tay"
    [] o \in {186} -> "tsx"
    [] o \in {138} -> "txa"
    [] o \in {154} -> "txs"
    [] o \in {152} -> "tya"
    [] OTHER -> "illegal"
OfficialMode(o) ==
  CASE o \in {13, 14, 32, 44, 45, 46, 76, 77, 78, 109, 110, 140, 141, 142, 172, 173, 174, 204, 205, 206, 236, 237, 238} -> ABSOLUTE
    [] o \in {29, 30, 61, 62, 93, 94, 125, 126, 157, 188, 189, 221, 222, 253, 254} -> ABSOLUTE_X
    [] o \in {25, 57, 89, 121, 153, 185, 190, 217, 249} -> ABSOLUTE_Y
    [] o \in {10, 42, 74, 106} -> ACCUMULATOR
    [] o \in {9, 41, 73, 105, 160, 162, 169, 192, 201, 224, 233} -> IMMEDIATE
    [] o \in {0, 8, 24, 40, 56, 64, 72, 88, 96, 104, 120, 136, 138, 152, 154, 168, 170, 184, 186, 200, 202, 216, 232, 234, 248} -> -1
    [] o \in {108} -> INDIRECT
    [] o \in {1, 33, 65, 97, 129, 161, 193, 225} -> INDIRECT_X
    [] o \in {17, 49, 81, 113, 145, 177, 209, 241} -> INDIRECT_Y
    [] o \in {16, 48, 80, 112, 144, 176, 208, 240} -> RELATIVE
    [] o \in {5, 6, 36, 37, 38, 69, 70, 101, 102, 132, 133, 134, 164, 165, 166, 196, 197, 198, 228, 229, 230} -> ZEROPAGE
    [] o \in {21, 22, 53, 54, 85, 86, 117, 118, 148, 149, 180, 181, 213, 214, 245, 246} -> ZEROPAGE_X
    [] o \in {150, 182} -> ZEROPAGE_Y
    [] OTHER -> -2
OfficialOpcodes == {o \in Byte : OfficialMnemonic(o) # "illegal"}
\* operand bytes that follow the opcode, by addressing mode
OperandLen(mode) ==
  CASE mode \in {ABSOLUTE, ABSOLUTE_X, ABSOLUTE_Y, INDIRECT} -> 2
    [] mode \in {IMMEDIATE, RELATIVE, INDIRECT_X, INDIRECT_Y, ZEROPAGE,
                 ZEROPAGE_X, ZEROPAGE_Y} -> 1
    [] OTHER -> 0

\* C4: my6502_step fails (assert) exactly when the byte fetched at PC is
\* not one of the 151 official encodings; an official encoding completes
\* and is dispatched as its standard (mnemonic, addressing mode) pair,
\* fetching that mode's operand bytes at PC+1 (and PC+2).
C4_IllegalIffUnofficial ==
  /\ Cardinality(OfficialOpcodes) = 151
  /\ last = "step" =>
       /\ halted <=> PreOp \notin OfficialOpcodes
       /\ ~halted =>
            /\ PreOp \in DOMAIN OpTable
            /\ OpTable[PreOp].mn = OfficialMnemonic(PreOp)
            /\ OpTable[PreOp].mode = OfficialMode(PreOp)
            /\ \A i \in 1..OperandLen(OfficialMode(PreOp)) :
                 /\ Len(bus) > i
                 /\ bus[i + 1] = <<"rd", U16(pre.r.pc + i),
                                   Peek(pre.r.mem, U16(pre.r.pc + i))>>
\* JMP absolute (0x4C) completed and went to its operand
C4_Witness ==
  /\ last = "step" /\ ~halted /\ PreOp = 76
  /\ my_pc = Peek(pre.r.mem, U16(pre.r.pc + 1))
              + 256 * Peek(pre.r.mem, U16(pre.r.pc + 2))

\* C5: when my6502_step fails on an undefined opcode, AC, X, Y, SP and SR
\* keep their pre-step values, memory is unwritten, the only bus access is
\* the opcode fetch, and PC is one past the offending opcode byte.
C5_FailurePreservesState ==
  halted =>
    /\ last = "step" /\ RegsKept /\ mem = pre.r.mem
    /\ bus = <<<<"rd", pre.r.pc, PreOp>>>>
    /\ my_pc = U16(pre.r.pc + 1)
\* the failure on opcode 0xFF fetched at 0xFFFF: PC wraps to 0
C5_Witness ==
  /\ halted /\ PreOp = 255 /\ pre.r.pc = 65535 /\ my_pc = 0
  /\ pre.r.sr = 255 /\ pre.r.ac = 129

\* ADC #b and SBC #b on every accumulator, operand and carry, with the other
\* SR bits all clear or all set; one call is left to these runs.
ArithSR == {32, 33, 222, 255}
InitAdc ==
  InitWith({1024}, Byte, {0}, {0}, {253}, ArithSR,
           {ProgramAt(1024, <<105, b>>) : b \in Byte}, "running", MaxCalls - 1)
InitSbc ==
  InitWith({1024}, Byte, {0}, {0}, {253}, ArithSR,
           {ProgramAt(1024, <<233, b>>) : b \in Byte}, "running", MaxCalls - 1)

SpecAdc == InitAdc /\ [][Next]_vars
SpecSbc == InitSbc /\ [][Next]_vars

\* the flag bits of a status byte
FlagN(sr) == Bit(sr, 7)
FlagV(sr) == Bit(sr, 6)
FlagZ(sr) == Bit(sr, 1)
FlagC(sr) == Bit(sr, 0)
\* bits B, D, I and bit 5 of a status byte
OtherBits(sr) == BitAnd(sr, 60)
Bool(p) == IF p THEN 1 ELSE 0

\* C6: for all bytes a (AC), b (operand) and carry-in c, ADC gives
\* AC = (a+b+c) & 0xFF, C = (a+b+c >= 256), Z = (AC = 0), N = bit 7 of AC,
\* V = (((a^AC) & (b^AC) & 0x80) # 0), and changes no other SR bit and no
\* other register.
C6_Adc ==
  (last = "step" /\ PreOp = 105) =>
    LET a == pre.r.ac
        b == Peek(pre.r.mem, U16(pre.r.pc + 1))
        c == FlagC(pre.r.sr)
    IN /\ my_ac = (a + b + c) % 256
       /\ FlagC(my_sr) = Bool(a + b + c >= 256)
       /\ FlagZ(my_sr) = Bool(my_ac = 0)
       /\ FlagN(my_sr) = Bit(my_ac, 7)
       /\ FlagV(my_sr) =
            Bool(BitAnd(BitAnd(BitXor(a, my_ac), BitXor(b, my_ac)), 128) # 0)
       /\ OtherBits(my_sr) = OtherBits(pre.r.sr)
       /\ my_x = pre.r.x /\ my_y = pre.r.y /\ my_sp = pre.r.sp
       /\ mem = pre.r.mem
\* Scenario D: 0x50 + 0x50 with carry clear gives 0xA0 with N and V set
C6_Witness ==
  /\ last = "step" /\ PreOp = 105 /\ pre.r.ac = 80 /\ pre.r.sr = 32
  /\ Peek(pre.r.mem, U16(pre.r.pc + 1)) = 80
  /\ my_ac = 160 /\ my_sr = 224

\* The state before the last call, with the instruction at PC replaced.
TwinOfPre(bytes) ==
  [pc |-> pre.r.pc, ac |-> pre.r.ac, x |-> pre.r.x, y |-> pre.r.y,
   sr |-> pre.r.sr, sp |-> pre.r.sp,
   mem |-> Overlay(pre.r.mem, ProgramAt(pre.r.pc, bytes)),
   bus |-> <<>>, halted |-> FALSE]

\* C7: for all bytes a, b, carry-in c and the other SR bits, SBC with
\* operand b leaves the same AC, N, V, Z and C as ADC with operand
\* ~b & 0xFF executed from the same state.
C7_SbcIsAdcOfComplement ==
  (last = "step" /\ PreOp = 233) =>
    LET b == Peek(pre.r.mem, U16(pre.r.pc + 1))
        adc == my6502_step(TwinOfPre(<<105, BitXor(b, 255)>>))
    IN /\ my_ac = adc.ac
       /\ FlagN(my_sr) = FlagN(adc.sr) /\ FlagV(my_sr) = FlagV(adc.sr)
       /\ FlagZ(my_sr) = FlagZ(adc.sr) /\ FlagC(my_sr) = FlagC(adc.sr)
\* 0 - 1 with carry set (no borrow pending): 0xFF, N set, C clear (borrow)
C7_Witness ==
  /\ last = "step" /\ PreOp = 233 /\ pre.r.ac = 0 /\ pre.r.sr = 33
  /\ Peek(pre.r.mem, U16(pre.r.pc + 1)) = 1
  /\ my_ac = 255 /\ my_sr = 160

\* Every zero page indexed opcode on every operand byte, with index
\* registers at both ends and the middle of the byte range (X and Y differ).
ZpIndexedOps == {o \in Byte : OfficialMode(o) \in {ZEROPAGE_X, ZEROPAGE_Y}}
IndexValues == {0, 1, 2, 127, 128, 253, 254, 255}
InitZp ==
  \E i \in IndexValues :
    InitWith({1024}, {129}, {i}, {255 - i}, {253}, {32},
             {ProgramAt(1024, <<o, b>>) : o \in ZpIndexedOps, b \in Byte},
             "running", MaxCalls - 1)

SpecZp == InitZp /\ [][Next]_vars

\* C8: for every opcode with ZEROPAGE_X or ZEROPAGE_Y addressing, all
\* operand bytes base and index register values idx, the effective address
\* is (base + idx) & 0xFF: every bus access after the two instruction
\* fetches is at that page 0 address.
C8_ZeroPageIndexedWraps ==
  (last = "step" /\ PreOp \in ZpIndexedOps) =>
    LET base == Peek(pre.r.mem, U16(pre.r.pc + 1))
        idx == IF OfficialMode(PreOp) = ZEROPAGE_X THEN pre.r.x ELSE pre.r.y
    IN /\ Len(bus) >= 3
       /\ \A i \in 3..Len(bus) :
            bus[i][2] = (base + idx) % 256 /\ bus[i][2] \in 0..255
\* Scenario F: X = 0xFF, LDA $81,X reads 0x0080
C8_Witness ==
  /\ last = "step" /\ PreOp = 181 /\ pre.r.x = 255
  /\ Peek(pre.r.mem, U16(pre.r.pc + 1)) = 129
  /\ Len(bus) = 3 /\ bus[3][1] = "rd" /\ bus[3][2] = 128

\* Instructions that access no stack byte and leave SP alone, used between
\* a push and its pull: NOP, CLC, SEC, INX.
NoStackOps == {234, 24, 56, 232}
\* The run so far is: opcode first, then instructions of NoStackOps only,
\* then opcode final as the step just made.
Bracketed(first, final) ==
  /\ last = "step" /\ Len(start.ops) >= 2
  /\ start.ops[1] = first /\ start.ops[Len(start.ops)] = final
  /\ \A i \in 2..(Len(start.ops) - 1) : start.ops[i] \in NoStackOps

\* JSR at the end, the start and the middle of the address space, to a
\* subroutine that returns at once or after one instruction, on every SP.
JsrSites == {1024, 254, 65533, 65535}
JsrTargets == {1029, 8197}
InitJsr ==
  \E a \in JsrSites :
    InitWith({a}, {0}, {0}, {0}, Byte, {32},
             {Overlay(ProgramAt(t, body),
                      ProgramAt(a, <<32, t % 256, t \div 256>>)) :
                t \in JsrTargets, body \in {<<96>>, <<234, 96>>, <<232, 96>>}},
             "running", 0)

SpecJsr == InitJsr /\ [][Next]_vars

\* C9: a JSR at any address A, with any SP, followed later by an RTS with
\* SP at its post-JSR value and the two pushed bytes unmodified, leaves
\* PC = (A + 3) mod 65536 and SP as before the JSR.
C9_JsrRtsReturns ==
  Bracketed(32, 96) =>
    /\ my_pc = U16(start.r.pc + 3)
    /\ my_sp = start.r.sp
\* JSR at 0xFFFD with SP = 0x00: the return address wraps to 0x0000
C9_Witness ==
  /\ Bracketed(32, 96) /\ Len(start.ops) = 3
  /\ start.r.pc = 65533 /\ start.r.sp = 0
  /\ my_pc = 0 /\ my_sp = 0

\* PHP ... PLP on every status byte.
InitPhp ==
  InitWith({1024}, {0}, {0}, {0}, {0, 253, 255}, Byte,
           {ProgramAt(1024, p) : p \in {<<8, 40>>, <<8, 24, 40>>, <<8, 56, 40>>}},
           "running", 0)

SpecPhp == InitPhp /\ [][Next]_vars

\* C10: PHP and then PLP with no stack write in between restores SP and
\* every SR bit other than bit 4 (B) and bit 5; bit 5 reads 1 afterwards.
C10_PhpPlpRestores ==
  Bracketed(8, 40) =>
    /\ my_sp = start.r.sp
    /\ BitAnd(my_sr, 207) = BitAnd(start.r.sr, 207)
    /\ Bit(my_sr, 5) = 1
\* SR = 0xC3, carry cleared by CLC in between, restored by PLP to 0xF3
C10_Witness ==
  /\ Bracketed(8, 40) /\ start.ops = <<8, 24, 40>>
  /\ start.r.sr = 195 /\ pre.r.sr = 194 /\ my_sr = 243
  /\ start.r.sp = 0 /\ my_sp = 0

\* C11: my6502_step on opcode 0xEA (NOP) leaves AC, X, Y, SR and SP
\* unchanged, advances PC by exactly 1 (mod 65536), and issues exactly one
\* bus access, the opcode read, and no bus write.
C11_NopFrame ==
  (last = "step" /\ PreOp = 234) =>
    /\ ~halted /\ RegsKept
    /\ my_pc = U16(pre.r.pc + 1)
    /\ bus = <<<<"rd", pre.r.pc, 234>>>>
    /\ mem = pre.r.mem
\* NOP at 0xFFFF with every SR bit set: PC wraps to 0, SR stays 0xFF
C11_Witness ==
  /\ last = "step" /\ PreOp = 234 /\ pre.r.pc = 65535 /\ my_pc = 0
  /\ pre.r.sr = 255 /\ my_sr = 255 /\ pre.r.sp = 0 /\ my_ac = 129

\* Scenario B of the specification: LDA #$42, PHA, LDA #$00, PLA at 0x0400,
\* followed by zeroes, NOPs or a further load, with the stack byte at
\* 0x01FD zero or already written; the host resets and then steps.  The six
\* steps the scenario speaks of come on top of the MaxCalls calls of a run.
ScenarioB == <<169, 66, 72, 169, 0, 104>>
InitScenarioB ==
  InitWith({0}, {0}, {0}, {0}, {0}, {0},
           {Overlay(d, ProgramAt(1024, ScenarioB \o tl)) :
              d \in {<<>>, ProgramAt(509, <<153>>)},
              tl \in {<<>>, <<234, 234>>, <<169, 0, 234>>, <<169, 7, 104>>}},
           "poweron", 0 - Len(ScenarioB))

SpecScenarioB == InitScenarioB /\ [][Next]_vars

\* k steps have been made since a reset(0x0400) with Scenario B at 0x0400
AfterScenarioBSteps(k) ==
  /\ last = "step" /\ Len(start.ops) = k
  /\ start.r.pc = 1024
  /\ \A i \in 1..Len(ScenarioB) : Peek(start.r.mem, 1023 + i) = ScenarioB[i]

\* C12 as claimed: Scenario B after 4 steps has AC = 0x42, memory[0x01FD] =
\* 0x42 and SP = 0xFC; after 5 steps AC = 0; after 6 steps AC = 0x42 and
\* SP = 0xFD.
C12_ScenarioB_AsClaimed ==
  /\ AfterScenarioBSteps(4) =>
       my_ac = 66 /\ Peek(mem, 509) = 66 /\ my_sp = 252
  /\ AfterScenarioBSteps(5) => my_ac = 0
  /\ AfterScenarioBSteps(6) => my_ac = 66 /\ my_sp = 253

\* C12: Scenario B, one step per instruction: after 2 steps (LDA #$42, PHA)
\* AC = 0x42, memory[0x01FD] = 0x42 and SP = 0xFC; after 3 steps (LDA #$00)
\* AC = 0; after 4 steps (PLA) AC = 0x42 and SP = 0xFD.
C12_ScenarioB ==
  /\ AfterScenarioBSteps(2) =>
       /\ start.ops = <<169, 72>>
       /\ my_ac = 66 /\ Peek(mem, 509) = 66 /\ my_sp = 252
  /\ AfterScenarioBSteps(3) => my_ac = 0 /\ my_sp = 252
  /\ AfterScenarioBSteps(4) =>
       /\ start.ops = <<169, 72, 169, 104>>
       /\ my_ac = 66 /\ my_sp = 253 /\ my_pc = 1030
\* the PLA of the fourth step brought 0x42 back over a 0x01FD that held 0x99
C12_Witness ==
  /\ AfterScenarioBSteps(4) /\ Peek(start.r.mem, 509) = 153
  /\ pre.r.ac = 0 /\ pre.r.sp = 252 /\ my_ac = 66 /\ my_sp = 253

\* C13 (as claimed; the code's RTI leaves bit 5 as pulled): RTI pulls
\* three bytes in the order SR, PC low, PC high; afterwards SR is the pulled
\* status byte with B (bit 4) and bit 5 both forced to 1 and all other bits
\* as pulled, PC is hi:lo with no +1 adjustment, and SP has increased by 3
\* modulo 256.
C13_RtiPullsStatusAndPC ==
  (last = "step" /\ PreOp = 64) =>
    LET pulled == [i \in 1..3 |-> Peek(pre.r.mem, PullAddrs(pre.r.sp, 3)[i])]
    IN /\ Tail(BusAddrs("rd")) = PullAddrs(pre.r.sp, 3)
       /\ BusAddrs("wr") = <<>>
       /\ my_sr = BitOr(pulled[1], BitOr(SR_FLAG_BREAK, SR_FLAG_UNUSED))
       /\ my_pc = pulled[2] + 256 * pulled[3]
       /\ my_sp = (pre.r.sp + 3) % 256

\* BRK in the middle and at the very end of the address space (at 0xFFFE
\* and 0xFFFF the opcode byte is part of the vector), with the stack
\* pointer at both ends of the page, I clear and set, and a range of
\* vectors.
BrkSites == {1024, 65534, 65535}
VectorBytes == {0, 52, 255}
InitBrk ==
  \E a \in BrkSites :
    InitWith({a}, {129}, {7}, {9}, {0, 1, 2, 253, 255}, {32, 36, 195, 255},
             {Overlay(ProgramAt(65534, <<lo, hi>>), ProgramAt(a, <<0>>)) :
                lo \in VectorBytes, hi \in VectorBytes},
             "running", 0)

SpecBrk == InitBrk /\ [][Next]_vars

\* C14: BRK at address A pushes the high byte then the low byte of
\* (A+2) mod 65536, then a copy of SR with B set, then sets I and loads
\* PC = read(0xFFFE) | (read(0xFFFF) << 8); the three stack writes precede
\* the two vector reads, the pushed copy carries the pre-BRK I, SP
\* decreases by 3 modulo 256, and no in-register SR bit other than I
\* changes.
C14_Brk ==
  (last = "step" /\ PreOp = 0) =>
    LET A == pre.r.pc
        ret == (A + 2) % 65536
        lo == Peek(pre.r.mem, 65534)
        hi == Peek(pre.r.mem, 65535)
        copy == BitOr(pre.r.sr, SR_FLAG_BREAK)
    IN /\ bus = << <<"rd", A, 0>>,
                   <<"wr", PushAddrs(pre.r.sp, 3)[1], ret \div 256>>,
                   <<"wr", PushAddrs(pre.r.sp, 3)[2], ret % 256>>,
                   <<"wr", PushAddrs(pre.r.sp, 3)[3], copy>>,
                   <<"rd", 65534, lo>>,
                   <<"rd", 65535, hi>> >>
       /\ Bit(copy, 2) = Bit(pre.r.sr, 2)
       /\ my_pc = lo + 256 * hi
       /\ my_sr = BitOr(pre.r.sr, SR_FLAG_INTERRUPT)
       /\ my_sp = (pre.r.sp - 3) % 256
       /\ my_ac = pre.r.ac /\ my_x = pre.r.x /\ my_y = pre.r.y
\* BRK at 0xFFFF with I clear and SP = 1: return address 0x0001, the
\* pushes wrap from 0x0101 to 0x01FF, the copy on the stack has I clear
C14_Witness ==
  /\ last = "step" /\ PreOp = 0 /\ pre.r.pc = 65535 /\ pre.r.sp = 1
  /\ pre.r.sr = 195 /\ my_sr = 199 /\ my_sp = 254
  /\ Peek(mem, 257) = 0 /\ Peek(mem, 256) = 1 /\ Peek(mem, 511) = 211
  /\ Peek(pre.r.mem, 65534) = 52 /\ my_pc = 52

\* Runs from power-on that reach a PHP: at the entry address at once, after
\* SEC or PLP, or after an RTI that pulls its status byte from 0x01FE and
\* returns to a PHP in page 0 (the stack bytes at 0x01FE, 0x01FF vary, the
\* one at 0x0100 is zero).
PhpTargets == {0, 52}
InitPhpFromReset ==
  InitWith({0}, {0}, {0}, {0}, {0}, {0},
           {Overlay(ProgramAt(510, <<p, tg>>),
                    Overlay(ProgramAt(tg, <<8>>), ProgramAt(1024, prog))) :
              p \in Byte, tg \in PhpTargets,
              prog \in {<<8>>, <<56, 8>>, <<40, 8>>, <<64>>}},
           "poweron", 0)

SpecPhpFromReset == InitPhpFromReset /\ [][Next]_vars

\* C15 (as claimed; fails after the RTI of C1 and C13 has cleared bit 5):
\* in every state reachable from reset, the byte PHP writes to the stack
\* equals SR | 0x30, and PHP leaves the in-register SR unchanged.
C15_PhpPushesBAndBit5 ==
  (last = "step" /\ PreOp = 8) =>
    /\ bus = << <<"rd", pre.r.pc, 8>>,
                <<"wr", 256 + pre.r.sp, BitOr(pre.r.sr, 48)>> >>
    /\ my_sr = pre.r.sr

\* Every (zp,X) and (zp),Y opcode on every operand byte, with the index
\* registers at both ends and the middle of the byte range, over pointer
\* bytes at 0x0000, 0x0001, at 0x00FE, 0x00FF and past the end of page 0 at
\* 0x0100; one call is left to these runs.
IndirectOps == {o \in Byte : OfficialMode(o) \in {INDIRECT_X, INDIRECT_Y}}
PointerData == Overlay(ProgramAt(0, <<18, 32>>), ProgramAt(254, <<16, 52, 86>>))
InitIndirect ==
  \E i \in IndexValues :
    InitWith({1024}, {129}, {i}, {255 - i}, {253}, {32},
             {Overlay(PointerData, ProgramAt(1024, <<o, b>>)) :
                o \in IndirectOps, b \in Byte},
             "running", MaxCalls - 1)

SpecIndirect == InitIndirect /\ [][Next]_vars

\* C16 (as claimed; the code reads the high pointer byte at P + 1 without
\* the wrap): for INDIRECT_X addressing with operand byte b and register
\* X, the pointer is P = (b + X) mod 256 and the effective address is
\* read(P) | (read((P+1) mod 256) << 8): both pointer bytes are read from
\* page 0, so when P = 0xFF the high byte is read from address 0x0000.
C16_IndirectXPointerInPage0 ==
  (last = "step" /\ OfficialMode(PreOp) = INDIRECT_X) =>
    LET b == Peek(pre.r.mem, U16(pre.r.pc + 1))
        P == (b + pre.r.x) % 256
        lo == Peek(pre.r.mem, P)
        hi == Peek(pre.r.mem, (P + 1) % 256)
    IN /\ Len(bus) = 5
       /\ bus[3] = <<"rd", P, lo>>
       /\ bus[4] = <<"rd", (P + 1) % 256, hi>>
       /\ bus[5][2] = lo + 256 * hi

\* C17 (as claimed; same unwrapped read): for INDIRECT_Y addressing with
\* operand byte b and register Y, the effective address is
\* (read(b) | (read((b+1) mod 256) << 8)) + Y modulo 65536: both pointer
\* bytes are read from page 0, so when b = 0xFF the high byte is read from
\* address 0x0000.
C17_IndirectYPointerInPage0 ==
  (last = "step" /\ OfficialMode(PreOp) = INDIRECT_Y) =>
    LET b == Peek(pre.r.mem, U16(pre.r.pc + 1))
        lo == Peek(pre.r.mem, b)
        hi == Peek(pre.r.mem, (b + 1) % 256)
    IN /\ Len(bus) = 5
       /\ bus[3] = <<"rd", b, lo>>
       /\ bus[4] = <<"rd", (b + 1) % 256, hi>>
       /\ bus[5][2] = (lo + 256 * hi + pre.r.y) % 65536

\* Every branch opcode with every offset byte, on all sixteen settings of
\* N, V, Z and C, at the start, the middle and the end of the address space;
\* one call is left to these runs.
BranchOps == {o \in Byte : OfficialMode(o) = RELATIVE}
BranchSites == {0, 1024, 65534, 65535}
BranchSR == {32 + 128 * n + 64 * v + 2 * z + c :
               n \in {0, 1}, v \in {0, 1}, z \in {0, 1}, c \in {0, 1}}
InitBranch ==
  \E a \in BranchSites :
    InitWith({a}, {129}, {7}, {9}, {253}, BranchSR,
             {ProgramAt(a, <<o, b>>) : o \in BranchOps, b \in Byte},
             "running", MaxCalls - 1)

SpecBranch == InitBranch /\ [][Next]_vars

\* the condition of a branch opcode on a status byte
BranchTaken(o, sr) ==
  CASE o = 16 -> FlagN(sr) = 0
    [] o = 48 -> FlagN(sr) = 1
    [] o = 80 -> FlagV(sr) = 0
    [] o = 112 -> FlagV(sr) = 1
    [] o = 144 -> FlagC(sr) = 0
    [] o = 176 -> FlagC(sr) = 1
    [] o = 208 -> FlagZ(sr) = 0
    [] o = 240 -> FlagZ(sr) = 1
sign_extend_8(o) == IF o < 128 THEN o ELSE o - 256

\* C18: for each branch opcode at address A with offset byte o: BPL
\* branches iff N=0, BMI iff N=1, BVC iff V=0, BVS iff V=1, BCC iff C=0,
\* BCS iff C=1, BNE iff Z=0, BEQ iff Z=1; when taken
\* PC = (A + 2 + sign_extend_8(o)) mod 65536, when not taken
\* PC = (A + 2) mod 65536; in both cases the offset byte is read from the
\* bus and no register other than PC and no flag changes.
C18_Branches ==
  (last = "step" /\ PreOp \in BranchOps) =>
    LET A == pre.r.pc
        o == Peek(pre.r.mem, U16(A + 1))
    IN /\ my_pc = IF BranchTaken(PreOp, pre.r.sr)
                  THEN (A + 2 + sign_extend_8(o)) % 65536
                  ELSE (A + 2) % 65536
       /\ bus = << <<"rd", A, PreOp>>, <<"rd", U16(A + 1), o>> >>
       /\ RegsKept /\ mem = pre.r.mem
\* BNE at 0x0000 with Z clear and offset 0x80 goes back across 0x0000 to
\* 0xFF82
C18_Witness ==
  /\ last = "step" /\ PreOp = 208 /\ pre.r.pc = 0 /\ FlagZ(pre.r.sr) = 0
  /\ Peek(pre.r.mem, 1) = 128 /\ my_pc = 65410

\* CMP #m, CPX #m and CPY #m on every operand byte m, with AC, X and Y each
\* running through every byte (three different values at a time) and the
\* SR bits all clear or all set; one call is left to these runs.
CompareOps == {201, 224, 192}
InitCompare ==
  \E r \in Byte :
    InitWith({1024}, {r}, {(r + 85) % 256}, {(r + 170) % 256}, {253}, {32, 255},
             {ProgramAt(1024, <<o, m>>) : o \in CompareOps, m \in Byte},
             "running", MaxCalls - 1)

SpecCompare == InitCompare /\ [][Next]_vars

\* C19: for CMP, CPX and CPY with register value r (AC, X or Y) and
\* operand m, for all bytes r and m: N = bit 7 of ((r - m) mod 256),
\* Z = (r = m), C = (r >= m), and AC, X, Y, SP, V and all other SR bits are
\* unchanged.
C19_Compare ==
  (last = "step" /\ PreOp \in CompareOps) =>
    LET r == CASE PreOp = 201 -> pre.r.ac
               [] PreOp = 224 -> pre.r.x
               [] PreOp = 192 -> pre.r.y
        m == Peek(pre.r.mem, U16(pre.r.pc + 1))
    IN /\ FlagN(my_sr) = Bit((r - m) % 256, 7)
       /\ FlagZ(my_sr) = Bool(r = m)
       /\ FlagC(my_sr) = Bool(r >= m)
       /\ BitAnd(my_sr, 124) = BitAnd(pre.r.sr, 124)
       /\ my_ac = pre.r.ac /\ my_x = pre.r.x /\ my_y = pre.r.y
       /\ my_sp = pre.r.sp /\ mem = pre.r.mem
\* CMP #$10 with AC = 0x10 (Scenario E) from SR = 0xFF: Z and C set, N
\* cleared, V and the other bits kept
C19_Witness ==
  /\ last = "step" /\ PreOp = 201 /\ pre.r.ac = 16 /\ pre.r.sr = 255
  /\ Peek(pre.r.mem, U16(pre.r.pc + 1)) = 16
  /\ my_sr = 127 /\ my_ac = 16

\* Any opcode byte in the last three bytes and the first byte of the address
\* space, its operand bytes running over 0xFFFF into 0x0000, with a return
\* address of 0xFFFF or zeroes on the stack.
WrapSites == {65533, 65534, 65535, 0}
InitWrap ==
  \E a \in WrapSites :
    InitWith({a}, {129}, {0, 255}, {1}, {253}, {32, 255},
             {Overlay(d, ProgramAt(a, <<o, b1, b2>>)) :
                d \in {<<>>, ProgramAt(510, <<255, 255>>)},
                o \in Byte, b1 \in {3, 128, 255}, b2 \in {2, 255}},
             "running", 0)

SpecWrap == InitWrap /\ [][Next]_vars

\* mnemonics that set PC from something other than the instruction length
ControlFlow ==
  {"jmp", "jsr", "rts", "rti", "brk", "bpl", "bmi", "bvc", "bvs", "bcc",
   "bcs", "bne", "beq"}

\* C20: PC stays within 0..0xFFFF in every reachable state and all PC
\* arithmetic wraps modulo 65536: an instruction whose opcode is at 0xFFFF
\* fetches its operand bytes from 0x0000 onward and leaves PC wrapped, and
\* a relative branch target, the JSR return address PC-1 and the RTS
\* adjustment raw+1 all wrap around 0xFFFF/0x0000.
C20_PCWraps ==
  /\ my_pc \in 0..65535
  /\ (last = "step" /\ ~halted) =>
       LET A == pre.r.pc
           n == OperandLen(OfficialMode(PreOp))
           o == Peek(pre.r.mem, U16(A + 1))
           raw == Peek(pre.r.mem, PullAddrs(pre.r.sp, 2)[1])
                    + 256 * Peek(pre.r.mem, PullAddrs(pre.r.sp, 2)[2])
       IN /\ A = 65535 =>
               /\ \A i \in 1..n :
                    bus[i + 1] = <<"rd", i - 1, Peek(pre.r.mem, i - 1)>>
               /\ OfficialMnemonic(PreOp) \notin ControlFlow => my_pc = n
          /\ OfficialMnemonic(PreOp) \notin ControlFlow =>
               my_pc = (A + 1 + n) % 65536
          /\ (PreOp \in BranchOps /\ BranchTaken(PreOp, pre.r.sr)) =>
               my_pc = (A + 2 + sign_extend_8(o)) % 65536
          /\ PreOp = 32 =>
               /\ bus[4] = <<"wr", PushAddrs(pre.r.sp, 2)[1],
                             ((A + 3 - 1) % 65536) \div 256>>
               /\ bus[5] = <<"wr", PushAddrs(pre.r.sp, 2)[2],
                             ((A + 3 - 1) % 65536) % 256>>
          /\ PreOp = 96 => my_pc = (raw + 1) % 65536
\* LDA abs with its opcode at 0xFFFF: the operand bytes come from 0x0000
\* and 0x0001 and PC ends at 0x0002
C20_Witness ==
  /\ last = "step" /\ PreOp = 173 /\ pre.r.pc = 65535 /\ my_pc = 2
  /\ bus[2][2] = 0 /\ bus[3][2] = 1
\* JSR at 0xFFFD: PC is 0x0000 after the operand fetch, the return address
\* pushed is 0xFFFF
C20_WitnessJsr ==
  /\ last = "step" /\ PreOp = 32 /\ pre.r.pc = 65533
  /\ bus[4][3] = 255 /\ bus[5][3] = 255
\* RTS pulling 0xFFFF: PC is 0x0000
C20_WitnessRts ==
  /\ last = "step" /\ PreOp = 96 /\ my_pc = 0
  /\ Peek(pre.r.mem, PullAddrs(pre.r.sp, 2)[1]) = 255
  /\ Peek(pre.r.mem, PullAddrs(pre.r.sp, 2)[2]) = 255
\* BCS at 0xFFFE with offset 3 read at 0xFFFF: the target is 0x0003
C20_WitnessBranch ==
  /\ last = "step" /\ PreOp = 176 /\ pre.r.pc = 65534 /\ FlagC(pre.r.sr) = 1
  /\ Peek(pre.r.mem, 65535) = 3 /\ my_pc = 3

\* JMP (P) for every low byte of P in pages 0x00, 0x02 and 0xFF, the target
\* bytes at P and P + 1 and a different byte at the start of P's page.
JmpPointerPages == {0, 2, 255}
InitJmpInd ==
  InitWith({1024}, {129}, {7}, {9}, {253}, {32, 255},
           {Overlay(Overlay(ProgramAt(256 * ph, <<119>>), ProgramAt(256 * ph + pl, tg)),
                    ProgramAt(1024, <<108, pl, ph>>)) :
              pl \in Byte, ph \in JmpPointerPages,
              tg \in {<<52, 18>>, <<255, 255>>}},
           "running", 0)

SpecJmpInd == InitJmpInd /\ [][Next]_vars

\* C21: JMP indirect (0x6C) with pointer P = lo | (hi << 8) sets
\* PC = read(P) | (read((P+1) mod 65536) << 8) for every P: when the low
\* byte of P is 0xFF the high byte of the target is read from the next
\* page, not from P & 0xFF00, and P = 0xFFFF reads it from 0x0000.
C21_JmpIndirect ==
  (last = "step" /\ PreOp = 108) =>
    LET A == pre.r.pc
        lo == Peek(pre.r.mem, U16(A + 1))
        hi == Peek(pre.r.mem, U16(A + 2))
        P == lo + 256 * hi
        Q == (P + 1) % 65536
    IN /\ bus = << <<"rd", A, 108>>, <<"rd", U16(A + 1), lo>>,
                   <<"rd", U16(A + 2), hi>>,
                   <<"rd", P, Peek(pre.r.mem, P)>>,
                   <<"rd", Q, Peek(pre.r.mem, Q)>> >>
       /\ my_pc = Peek(pre.r.mem, P) + 256 * Peek(pre.r.mem, Q)
       /\ RegsKept /\ mem = pre.r.mem
\* JMP ($02FF): the high byte 0x12 comes from 0x0300, not the 0x77 at
\* 0x0200
C21_Witness ==
  /\ last = "step" /\ PreOp = 108 /\ pre.r.pc = 1024
  /\ Peek(pre.r.mem, 1025) = 255 /\ Peek(pre.r.mem, 1026) = 2
  /\ Peek(pre.r.mem, 512) = 119 /\ Peek(pre.r.mem, 768) = 18
  /\ bus[5][2] = 768 /\ my_pc = 4660
\* JMP ($FFFF): the high byte comes from 0x0000
C21_WitnessTop ==
  /\ last = "step" /\ PreOp = 108
  /\ Peek(pre.r.mem, 1025) = 255 /\ Peek(pre.r.mem, 1026) = 255
  /\ bus[4][2] = 65535 /\ bus[5] = <<"rd", 0, 18>> /\ my_pc = 4660

\* ADC #m and SBC #m on every accumulator, with D and C clear and set and
\* the other flags all clear or all set, on operands around the decimal
\* digit and byte boundaries; one call is left to these runs.
DecimalOperands ==
  {0, 1, 5, 9, 10, 15, 16, 25, 79, 80, 99, 127, 128, 153, 154, 255}
DecimalSR == {32 + 8 * d + c + 198 * o : d \in {0, 1}, c \in {0, 1}, o \in {0, 1}}
InitDecimal ==
  InitWith({1024}, Byte, {7}, {9}, {253}, DecimalSR,
           {ProgramAt(1024, <<o, m>>) : o \in {105, 233}, m \in DecimalOperands},
           "running", MaxCalls - 1)

SpecDecimal == InitDecimal /\ [][Next]_vars

\* The state before the last call with SR bit 3 (D) flipped.
DTwinOfPre ==
  [TwinOfPre(<<>>) EXCEPT
     !.sr = IF Bit(@, 3) = 1 THEN @ - SR_FLAG_DECIMAL ELSE @ + SR_FLAG_DECIMAL]

\* C22: the D flag has no arithmetic effect: for any two CPU states that
\* differ only in SR bit 3 (D) and see the same memory, stepping the same
\* ADC or SBC instruction yields identical AC, N, V, Z and C, and D itself
\* keeps its respective value.
C22_DecimalFlagIgnored ==
  (last = "step" /\ PreOp \in {105, 233}) =>
    LET twin == my6502_step(DTwinOfPre)
    IN /\ DTwinOfPre.sr # pre.r.sr
       /\ BitAnd(DTwinOfPre.sr, 247) = BitAnd(pre.r.sr, 247)
       /\ my_ac = twin.ac
       /\ FlagN(my_sr) = FlagN(twin.sr) /\ FlagV(my_sr) = FlagV(twin.sr)
       /\ FlagZ(my_sr) = FlagZ(twin.sr) /\ FlagC(my_sr) = FlagC(twin.sr)
       /\ Bit(my_sr, 3) = Bit(pre.r.sr, 3)
       /\ Bit(twin.sr, 3) = 1 - Bit(pre.r.sr, 3)
\* 0x09 + 0x01 with D set gives the binary sum 0x0A, as with D clear
C22_Witness ==
  /\ last = "step" /\ PreOp = 105 /\ pre.r.ac = 9 /\ pre.r.sr = 40
  /\ Peek(pre.r.mem, 1025) = 1 /\ my_ac = 10 /\ my_sr = 40
  /\ my6502_step(DTwinOfPre).ac = 10 /\ my6502_step(DTwinOfPre).sr = 32

\* C23: for all bytes a (AC), m (operand) and carry-in c, SBC computes
\* AC = (a - m - (1 - c)) mod 256 and sets C = 1 exactly when no borrow
\* occurred, i.e. when a - m - (1 - c) >= 0; in particular with C = 1 on
\* entry the result is (a - m) mod 256 with C = (a >= m).
C23_SbcBorrow ==
  (last = "step" /\ PreOp = 233) =>
    LET a == pre.r.ac
        m == Peek(pre.r.mem, U16(pre.r.pc + 1))
        c == FlagC(pre.r.sr)
        d == a - m - (1 - c)
    IN /\ my_ac = d % 256
       /\ FlagC(my_sr) = Bool(d >= 0)
       /\ c = 1 => my_ac = (a - m) % 256 /\ FlagC(my_sr) = Bool(a >= m)
\* 5 - 5 with C clear on entry: the pending borrow gives 0xFF and C = 0
C23_Witness ==
  /\ last = "step" /\ PreOp = 233 /\ pre.r.ac = 5 /\ pre.r.sr = 32
  /\ Peek(pre.r.mem, U16(pre.r.pc + 1)) = 5
  /\ my_ac = 255 /\ FlagC(my_sr) = 0

\* C24: JSR at address A with stack pointer s and target T reads the
\* opcode and both operand bytes (low then high) first, then writes the
\* high byte of (A+2) at 0x0100+s and then the low byte of (A+2) at
\* 0x0100+((s-1) mod 256), leaving SP = (s-2) mod 256 and PC = T with no
\* flag or other register changed.
C24_JsrOrder ==
  (last = "step" /\ PreOp = 32) =>
    LET A == pre.r.pc
        s == pre.r.sp
        lo == Peek(pre.r.mem, U16(A + 1))
        hi == Peek(pre.r.mem, U16(A + 2))
        ret == (A + 2) % 65536
    IN /\ bus = << <<"rd", A, 32>>, <<"rd", U16(A + 1), lo>>,
                   <<"rd", U16(A + 2), hi>>,
                   <<"wr", 256 + s, ret \div 256>>,
                   <<"wr", 256 + ((s - 1) % 256), ret % 256>> >>
       /\ my_sp = (s - 2) % 256
       /\ my_pc = lo + 256 * hi
       /\ my_sr = pre.r.sr /\ my_ac = pre.r.ac
       /\ my_x = pre.r.x /\ my_y = pre.r.y
\* Scenario C: JSR $0405 at 0x0400 with SP = 0xFD stores 0x04 at 0x01FD
\* and 0x02 at 0x01FC, SP = 0xFB
C24_Witness ==
  /\ last = "step" /\ PreOp = 32 /\ pre.r.pc = 1024 /\ pre.r.sp = 253
  /\ my_pc = 1029 /\ my_sp = 251
  /\ Peek(mem, 509) = 4 /\ Peek(mem, 508) = 2
\* JSR at 0x00FE with SP = 0x00: the high operand byte at 0x0100 is read
\* before the same address takes the high byte of the return address
C24_WitnessOverlap ==
  /\ last = "step" /\ PreOp = 32 /\ pre.r.pc = 254 /\ pre.r.sp = 0
  /\ bus[3] = <<"rd", 256, 32>> /\ bus[4] = <<"wr", 256, 1>>
  /\ my_pc = 8197

\* ASL, LSR, ROL and ROR in each of their five addressing modes, on every
\* operand byte (the accumulator holds v, the memory operand v + 85), with
\* C clear and set and the other flags all clear or all set; the memory
\* operands lie at 0x0080, 0x0087 (X = 7), 0x9234 and 0x923B.  One call is
\* left to these runs.
ShiftOps == {o \in Byte : OfficialMnemonic(o) \in {"asl", "lsr", "rol", "ror"}}
ShiftImages(w) ==
  {ProgramAt(1024, <<o>>) : o \in {p \in ShiftOps : OfficialMode(p) = ACCUMULATOR}}
  \cup {Overlay(ProgramAt(128, <<w>>), ProgramAt(1024, <<o, 128>>)) :
          o \in {p \in ShiftOps : OfficialMode(p) = ZEROPAGE}}
  \cup {Overlay(ProgramAt(135, <<w>>), ProgramAt(1024, <<o, 128>>)) :
          o \in {p \in ShiftOps : OfficialMode(p) = ZEROPAGE_X}}
  \cup {Overlay(ProgramAt(37428, <<w>>), ProgramAt(1024, <<o, 52, 146>>)) :
          o \in {p \in ShiftOps : OfficialMode(p) = ABSOLUTE}}
  \cup {Overlay(ProgramAt(37435, <<w>>), ProgramAt(1024, <<o, 52, 146>>)) :
          o \in {p \in ShiftOps : OfficialMode(p) = ABSOLUTE_X}}
InitShift ==
  \E v \in Byte :
    InitWith({1024}, {v}, {7}, {9}, {253}, {32, 33, 254, 255},
             ShiftImages((v + 85) % 256), "running", MaxCalls - 1)

SpecShift == InitShift /\ [][Next]_vars

\* The effective address of the instruction of the last step, for the
\* zero page and absolute modes, from its operand bytes.
PreEA ==
  LET b1 == Peek(pre.r.mem, U16(pre.r.pc + 1))
      b2 == Peek(pre.r.mem, U16(pre.r.pc + 2))
      mode == OfficialMode(PreOp)
  IN CASE mode = ZEROPAGE -> b1
       [] mode = ZEROPAGE_X -> (b1 + pre.r.x) % 256
       [] mode = ZEROPAGE_Y -> (b1 + pre.r.y) % 256
       [] mode = ABSOLUTE -> b1 + 256 * b2
       [] mode = ABSOLUTE_X -> (b1 + 256 * b2 + pre.r.x) % 65536
       [] mode = ABSOLUTE_Y -> (b1 + 256 * b2 + pre.r.y) % 65536
\* the instruction fetches of the last step: opcode and operand bytes
PreFetches ==
  [i \in 1..(1 + OperandLen(OfficialMode(PreOp))) |->
     <<"rd", U16(pre.r.pc + i - 1), Peek(pre.r.mem, U16(pre.r.pc + i - 1))>>]

\* C25: for every operand byte v and carry-in c, ASL yields (v<<1)&0xFF
\* with C = bit 7 of v; LSR yields v>>1 with C = bit 0 of v; ROL yields
\* ((v<<1)|c)&0xFF with C = bit 7 of v; ROR yields (v>>1)|(c<<7) with
\* C = bit 0 of v; N and Z reflect the result; and the result is written
\* back to the operand's own location: in accumulator mode to AC with no
\* bus access beyond the opcode fetch, in a memory mode to the effective
\* address that was read (one read then one write of EA) with AC
\* unchanged.
C25_ShiftRotate ==
  (last = "step" /\ PreOp \in ShiftOps) =>
    LET acc == OfficialMode(PreOp) = ACCUMULATOR
        v == IF acc THEN pre.r.ac ELSE Peek(pre.r.mem, PreEA)
        c == FlagC(pre.r.sr)
        mn == OfficialMnemonic(PreOp)
        res == CASE mn = "asl" -> (2 * v) % 256
                 [] mn = "lsr" -> v \div 2
                 [] mn = "rol" -> (2 * v + c) % 256
                 [] mn = "ror" -> (v \div 2) + 128 * c
        cout == IF mn \in {"asl", "rol"} THEN Bit(v, 7) ELSE Bit(v, 0)
    IN /\ FlagC(my_sr) = cout
       /\ FlagN(my_sr) = Bit(res, 7) /\ FlagZ(my_sr) = Bool(res = 0)
       /\ IF acc
          THEN /\ my_ac = res /\ mem = pre.r.mem
               /\ bus = << <<"rd", pre.r.pc, PreOp>> >>
          ELSE /\ my_ac = pre.r.ac
               /\ mem = Store(pre.r.mem, PreEA, res)
               /\ bus = PreFetches \o << <<"rd", PreEA, v>>, <<"wr", PreEA, res>> >>
\* ROR $9234 with C set on 0x01: 0x80 is written back to 0x9234, C = 1,
\* N = 1, AC untouched
C25_Witness ==
  /\ last = "step" /\ PreOp = 110 /\ FlagC(pre.r.sr) = 1
  /\ Peek(pre.r.mem, 37428) = 1 /\ Peek(mem, 37428) = 128
  /\ FlagC(my_sr) = 1 /\ FlagN(my_sr) = 1 /\ my_ac = pre.r.ac
\* ROL A with C set on 0x80: AC = 0x01, C = 1, one bus access
C25_WitnessAcc ==
  /\ last = "step" /\ PreOp = 42 /\ pre.r.ac = 128 /\ FlagC(pre.r.sr) = 1
  /\ my_ac = 1 /\ FlagC(my_sr) = 1 /\ Len(bus) = 1

\* One instruction of each opcode of ops that has a zero page or absolute
\* (plain or X-indexed) mode, its memory operand being the byte w at
\* 0x0080, 0x0087 (X = 7), 0x9234 or 0x923B.
OperandImages(ops, w) ==
  {Overlay(ProgramAt(128, <<w>>), ProgramAt(1024, <<o, 128>>)) :
     o \in {p \in ops : OfficialMode(p) = ZEROPAGE}}
  \cup {Overlay(ProgramAt(135, <<w>>), ProgramAt(1024, <<o, 128>>)) :
          o \in {p \in ops : OfficialMode(p) = ZEROPAGE_X}}
  \cup {Overlay(ProgramAt(37428, <<w>>), ProgramAt(1024, <<o, 52, 146>>)) :
          o \in {p \in ops : OfficialMode(p) = ABSOLUTE}}
  \cup {Overlay(ProgramAt(37435, <<w>>), ProgramAt(1024, <<o, 52, 146>>)) :
          o \in {p \in ops : OfficialMode(p) = ABSOLUTE_X}}

\* INC and DEC in each of their four addressing modes on every operand
\* byte, with the flags all clear or all set; one call is left to these
\* runs.
IncDecOps == {o \in Byte : OfficialMnemonic(o) \in {"inc", "dec"}}
InitIncDec ==
  \E w \in Byte :
    InitWith({1024}, {129}, {7}, {9}, {253}, {32, 255},
             OperandImages(IncDecOps, w), "running", MaxCalls - 1)

SpecIncDec == InitIncDec /\ [][Next]_vars

\* C26: INC and DEC on effective address EA issue, after the instruction
\* byte fetches, exactly one read of EA followed by exactly one write of EA
\* with the value read plus or minus 1 modulo 256; N and Z reflect the
\* written value, and AC, X, Y, SP, C and V are unchanged.
C26_IncDec ==
  (last = "step" /\ PreOp \in IncDecOps) =>
    LET v == Peek(pre.r.mem, PreEA)
        res == IF OfficialMnemonic(PreOp) = "inc"
               THEN (v + 1) % 256 ELSE (v - 1) % 256
    IN /\ bus = PreFetches \o << <<"rd", PreEA, v>>, <<"wr", PreEA, res>> >>
       /\ mem = Store(pre.r.mem, PreEA, res)
       /\ FlagN(my_sr) = Bit(res, 7) /\ FlagZ(my_sr) = Bool(res = 0)
       /\ FlagC(my_sr) = FlagC(pre.r.sr) /\ FlagV(my_sr) = FlagV(pre.r.sr)
       /\ my_ac = pre.r.ac /\ my_x = pre.r.x /\ my_y = pre.r.y
       /\ my_sp = pre.r.sp
\* INC $80 on 0xFF writes 0x00 and sets Z
C26_Witness ==
  /\ last = "step" /\ PreOp = 230 /\ Peek(pre.r.mem, 128) = 255
  /\ Peek(mem, 128) = 0 /\ FlagZ(my_sr) = 1 /\ FlagN(my_sr) = 0
  /\ pre.r.sr = 255
\* DEC $9234,X on 0x00 writes 0xFF to 0x923B and sets N
C26_WitnessDec ==
  /\ last = "step" /\ PreOp = 222 /\ Peek(pre.r.mem, 37435) = 0
  /\ Peek(mem, 37435) = 255 /\ FlagN(my_sr) = 1 /\ FlagZ(my_sr) = 0

\* BIT zp and BIT abs on every accumulator and every operand byte, with the
\* flags all clear or all set; one call is left to these runs.
BitOps == {36, 44}
InitBit ==
  \E m \in Byte :
    InitWith({1024}, Byte, {7}, {9}, {253}, {32, 255},
             OperandImages(BitOps, m), "running", MaxCalls - 1)

SpecBit == InitBit /\ [][Next]_vars

\* C27: BIT with memory operand m sets N to bit 7 of m, V to bit 6 of m and
\* Z to ((AC & m) = 0), for all bytes AC and m, and leaves AC, X, Y, SP, C
\* and memory unchanged.
C27_Bit ==
  (last = "step" /\ PreOp \in BitOps) =>
    LET m == Peek(pre.r.mem, PreEA)
    IN /\ FlagN(my_sr) = Bit(m, 7) /\ FlagV(my_sr) = Bit(m, 6)
       /\ FlagZ(my_sr) = Bool(\A i \in 0..7 : Bit(pre.r.ac, i) = 0 \/ Bit(m, i) = 0)
       /\ FlagC(my_sr) = FlagC(pre.r.sr)
       /\ my_ac = pre.r.ac /\ my_x = pre.r.x /\ my_y = pre.r.y
       /\ my_sp = pre.r.sp /\ mem = pre.r.mem
\* BIT $80 with AC = 0x01 on 0xC0: N and V set from the operand, Z set
\* because AC & m = 0
C27_Witness ==
  /\ last = "step" /\ PreOp = 36 /\ pre.r.ac = 1 /\ pre.r.sr = 32
  /\ Peek(pre.r.mem, 128) = 192 /\ my_sr = 226

\* The loads in their immediate, zero page and absolute modes and the six
\* register transfers, with AC, X, Y and SP running through every byte
\* (four different values at a time), the operand being a fifth value,
\* and the flags all clear or all set; one call is left to these runs.
LoadOps ==
  {o \in Byte : /\ OfficialMnemonic(o) \in {"lda", "ldx", "ldy"}
                /\ OfficialMode(o) \notin {INDIRECT_X, INDIRECT_Y}}
TransferOps == {170, 168, 138, 152, 186, 154}
InitMove ==
  \E v \in Byte :
    InitWith({1024}, {v}, {(v + 85) % 256}, {(v + 170) % 256},
             {(v + 51) % 256}, {32, 255},
             {ProgramAt(1024, <<o>>) : o \in TransferOps}
             \cup {ProgramAt(1024, <<o, (v + 119) % 256>>) :
                     o \in {p \in LoadOps : OfficialMode(p) = IMMEDIATE}}
             \cup OperandImages(LoadOps, (v + 119) % 256),
             "running", MaxCalls - 1)

SpecMove == InitMove /\ [][Next]_vars

\* AC, X, Y and SP as a record, now and before the last call
RegFile == [ac |-> my_ac, x |-> my_x, y |-> my_y, sp |-> my_sp]
PreRegFile == [ac |-> pre.r.ac, x |-> pre.r.x, y |-> pre.r.y, sp |-> pre.r.sp]

\* C28: LDA/LDX/LDY set their register to the operand and TAX, TAY, TXA,
\* TYA, TSX copy source to destination, each setting N to bit 7 and Z to
\* (value = 0) of the destination and changing no other flag and no other
\* register; TXS copies X into SP and changes no SR bit at all, whatever
\* the value of X.
C28_LoadsAndTransfers ==
  (last = "step" /\ PreOp \in LoadOps \cup TransferOps) =>
    LET mn == OfficialMnemonic(PreOp)
        operand == IF OfficialMode(PreOp) = IMMEDIATE
                   THEN Peek(pre.r.mem, U16(pre.r.pc + 1))
                   ELSE Peek(pre.r.mem, PreEA)
        dest == CASE mn \in {"lda", "txa", "tya"} -> "ac"
                  [] mn \in {"ldx", "tax", "tsx"} -> "x"
                  [] mn \in {"ldy", "tay"} -> "y"
                  [] mn = "txs" -> "sp"
        value == CASE mn \in {"lda", "ldx", "ldy"} -> operand
                   [] mn \in {"tax", "tay"} -> pre.r.ac
                   [] mn \in {"txa", "txs"} -> pre.r.x
                   [] mn = "tya" -> pre.r.y
                   [] mn = "tsx" -> pre.r.sp
    IN /\ RegFile = [PreRegFile EXCEPT ![dest] = value]
       /\ mem = pre.r.mem
       /\ IF mn = "txs"
          THEN my_sr = pre.r.sr
          ELSE /\ FlagN(my_sr) = Bit(value, 7)
               /\ FlagZ(my_sr) = Bool(value = 0)
               /\ BitAnd(my_sr, 125) = BitAnd(pre.r.sr, 125)
\* TXS with X = 0x00 from SR = 0x20: SP = 0, Z stays clear
C28_Witness ==
  /\ last = "step" /\ PreOp = 154 /\ pre.r.x = 0 /\ pre.r.sp # 0
  /\ pre.r.sr = 32 /\ my_sp = 0 /\ my_sr = 32
\* TSX with SP = 0x80 from SR = 0xFF: X = 0x80, N set, Z cleared
C28_WitnessTsx ==
  /\ last = "step" /\ PreOp = 186 /\ pre.r.sp = 128 /\ pre.r.sr = 255
  /\ my_x = 128 /\ my_sr = 253
\* LDY $9234 loading 0x00: Y = 0, Z set
C28_WitnessLdy ==
  /\ last = "step" /\ PreOp = 172 /\ Peek(pre.r.mem, 37428) = 0
  /\ pre.r.y # 0 /\ my_y = 0 /\ FlagZ(my_sr) = 1

\* C29: in every step the first bus access is a read of the opcode at the
\* pre-step PC, followed by reads of the instruction's operand bytes at
\* PC+1 (and PC+2, low byte first) before any other bus access; for every
\* instruction that does not transfer control (everything except taken
\* branches, JMP, JSR, RTS, RTI, BRK) the step ends with
\* PC = pre-step PC + 1 + number of operand bytes, modulo 65536.
C29_FetchOrderAndLength ==
  last = "step" =>
    LET n == OperandLen(OfficialMode(PreOp))
        transfers ==
          \/ OfficialMnemonic(PreOp) \in {"jmp", "jsr", "rts", "rti", "brk"}
          \/ PreOp \in BranchOps /\ BranchTaken(PreOp, pre.r.sr)
    IN /\ Len(bus) >= 1 + n
       /\ SubSeq(bus, 1, 1 + n) = PreFetches
       /\ ~transfers => my_pc = (pre.r.pc + 1 + n) % 65536
\* LDA $0203 (a two byte operand): reads at PC, PC+1, PC+2, then the
\* operand, PC = PC + 3
C29_Witness ==
  /\ last = "step" /\ PreOp = 173 /\ pre.r.pc = 1024
  /\ BusAddrs("rd") = <<1024, 1025, 1026, 515>> /\ my_pc = 1027
\* BEQ with Z clear: the offset is fetched, the branch is not taken,
\* PC = PC + 2
C29_WitnessUntaken ==
  /\ last = "step" /\ PreOp = 240 /\ FlagZ(pre.r.sr) = 0
  /\ Len(bus) = 2 /\ my_pc = U16(pre.r.pc + 2)

\* PHA ... PLA on every accumulator, with nothing, NOP, TXA, LDA #$00 or
\* LDA #$80 in between, the stack pointer at both ends of the page.
AcChangingOps == {234, 138, 169}
InitPha ==
  InitWith({1024}, Byte, {90}, {9}, {0, 253, 255}, {32, 255},
           {ProgramAt(1024, p) :
              p \in {<<72, 104>>, <<72, 234, 104>>, <<72, 138, 104>>,
                     <<72, 169, 0, 104>>, <<72, 169, 128, 104>>}},
           "running", 0)

SpecPha == InitPha /\ [][Next]_vars

\* The run so far is: opcode first, then instructions of between only,
\* then opcode final as the step just made.
BracketedBy(first, final, between) ==
  /\ last = "step" /\ Len(start.ops) >= 2
  /\ start.ops[1] = first /\ start.ops[Len(start.ops)] = final
  /\ \A i \in 2..(Len(start.ops) - 1) : start.ops[i] \in between

\* C30: PHA followed later by PLA, with SP at PLA equal to its post-PHA
\* value and the pushed byte unmodified, restores AC to the value it had at
\* the PHA whatever happened to AC in between, restores SP to its pre-PHA
\* value, and sets N and Z from the pulled value; PHA itself changes no
\* flag and no register other than SP.
C30_PhaPlaRestores ==
  /\ BracketedBy(72, 104, AcChangingOps) =>
       /\ my_ac = start.r.ac /\ my_sp = start.r.sp
       /\ FlagN(my_sr) = Bit(start.r.ac, 7)
       /\ FlagZ(my_sr) = Bool(start.r.ac = 0)
  /\ (last = "step" /\ PreOp = 72) =>
       /\ my_sr = pre.r.sr /\ my_ac = pre.r.ac
       /\ my_x = pre.r.x /\ my_y = pre.r.y
       /\ my_sp = (pre.r.sp - 1) % 256
       /\ bus = << <<"rd", pre.r.pc, 72>>, <<"wr", 256 + pre.r.sp, pre.r.ac>> >>
\* AC = 0x80 pushed with SP = 0x00, LDA #$00 in between (AC = 0, Z set):
\* PLA brings back 0x80 with N set, Z clear, SP = 0x00
C30_Witness ==
  /\ BracketedBy(72, 104, AcChangingOps) /\ start.ops = <<72, 169, 104>>
  /\ start.r.ac = 128 /\ start.r.sp = 0
  /\ pre.r.ac = 0 /\ FlagZ(pre.r.sr) = 1 /\ pre.r.sp = 255
  /\ my_ac = 128 /\ my_sp = 0 /\ FlagN(my_sr) = 1 /\ FlagZ(my_sr) = 0

\* BRK in the middle and at the end of the address space with its vector
\* pointing at an RTI, on every status byte, the stack pointer at both
\* ends of the page.  (At 0xFFFE and 0xFFFF the BRK opcode is one byte of
\* the vector; the RTI then lies at the target only for some vectors.)
RtiTargets == {52, 13312, 13364}
InitBrkRti ==
  \E a \in BrkSites :
    InitWith({a}, {129}, {7}, {9}, {0, 1, 2, 253, 255}, Byte,
             {Overlay(ProgramAt(tg, <<64>>),
                      Overlay(ProgramAt(65534, <<tg % 256, tg \div 256>>),
                              ProgramAt(a, <<0>>))) : tg \in RtiTargets},
             "running", 0)

SpecBrkRti == InitBrkRti /\ [][Next]_vars

\* C31: a BRK at address A followed immediately by an RTI at the vector
\* target leaves PC = (A + 2) mod 65536, SP equal to its pre-BRK value,
\* and SR equal to the pre-BRK SR with bit 4 (B) set; in particular the I
\* flag set by BRK returns to its pre-BRK value.
C31_BrkRtiRoundTrip ==
  (last = "step" /\ start.ops = <<0, 64>>) =>
    /\ my_pc = (start.r.pc + 2) % 65536
    /\ my_sp = start.r.sp
    /\ my_sr = BitOr(start.r.sr, SR_FLAG_BREAK)
    /\ Bit(pre.r.sr, 2) = 1
    /\ Bit(my_sr, 2) = Bit(start.r.sr, 2)
\* BRK at 0xFFFF with SR = 0x20 and SP = 0x01, RTI at 0x0034: back at
\* 0x0001 with SR = 0x30, I clear again, SP = 0x01
C31_Witness ==
  /\ last = "step" /\ start.ops = <<0, 64>>
  /\ start.r.pc = 65535 /\ start.r.sr = 32 /\ start.r.sp = 1
  /\ pre.r.pc = 52 /\ pre.r.sr = 36 /\ pre.r.sp = 254
  /\ my_pc = 1 /\ my_sr = 48 /\ my_sp = 1

\* the opcodes whose instruction writes to the bus
WritingOps ==
  {o \in Byte :
     \/ OfficialMnemonic(o) \in {"sta", "stx", "sty", "inc", "dec", "pha",
                                  "php", "jsr", "brk"}
     \/ /\ OfficialMnemonic(o) \in {"asl", "lsr", "rol", "ror"}
        /\ OfficialMode(o) # ACCUMULATOR}
StoreOps == {o \in Byte : OfficialMnemonic(o) \in {"sta", "stx", "sty"}}

\* C32: bus writes are issued only by STA, STX, STY, INC, DEC, memory-mode
\* ASL/LSR/ROL/ROR, PHA, PHP, JSR and BRK; every other instruction issues
\* reads only and so leaves memory unchanged; and STA/STX/STY issue exactly
\* one write of the register to EA, never read EA, and change no flag and
\* no register other than PC.
C32_WriteFrame ==
  last = "step" =>
    /\ PreOp \notin WritingOps =>
         /\ \A i \in 1..Len(bus) : bus[i][1] = "rd"
         /\ mem = pre.r.mem
    /\ PreOp \in StoreOps =>
         LET mn == OfficialMnemonic(PreOp)
             reg == CASE mn = "sta" -> pre.r.ac
                      [] mn = "stx" -> pre.r.x
                      [] mn = "sty" -> pre.r.y
             final == bus[Len(bus)]
         IN /\ RegsKept
            /\ Len(BusAddrs("wr")) = 1
            /\ final[1] = "wr" /\ final[3] = reg
            /\ mem = Store(pre.r.mem, final[2], reg)
            /\ IF OfficialMode(PreOp) \in {INDIRECT_X, INDIRECT_Y}
               THEN Len(bus) = 5
               ELSE bus = PreFetches \o << <<"wr", PreEA, reg>> >>
\* STX $03 with X = 0xFF from SR = 0xFF: one write of 0xFF to 0x0003
\* after the two fetches, SR unchanged
C32_Witness ==
  /\ last = "step" /\ PreOp = 134 /\ pre.r.x = 255 /\ pre.r.sr = 255
  /\ Len(bus) = 3 /\ bus[3] = <<"wr", 3, 255>> /\ my_sr = 255
  /\ Peek(pre.r.mem, 3) # 255 /\ Peek(mem, 3) = 255
\* ROL A (accumulator mode) issues one read and no write
C32_WitnessReadOnly ==
  /\ last = "step" /\ PreOp = 42 /\ Len(bus) = 1 /\ mem = pre.r.mem
  /\ my_ac # pre.r.ac

\* net SP change of one instruction, by mnemonic (pulls up, pushes down)
SpDelta(o) ==
  LET mn == OfficialMnemonic(o)
  IN CASE mn \in {"pha", "php"} -> -1
       [] mn \in {"pla", "plp"} -> 1
       [] mn = "jsr" -> -2
       [] mn = "rts" -> 2
       [] mn = "brk" -> -3
       [] mn = "rti" -> 3
       [] OTHER -> 0

\* C33: SP is changed only by reset, PHA, PHP, PLA, PLP, JSR, RTS, BRK, RTI
\* and TXS; a step of any other instruction leaves SP as it was, and the
\* net SP change of each stack instruction is fixed (PHA/PHP -1, PLA/PLP +1,
\* JSR -2, RTS +2, BRK -3, RTI +3, modulo 256).
C33_SpFrame ==
  last = "step" =>
    IF OfficialMnemonic(PreOp) = "txs"
    THEN my_sp = pre.r.x
    ELSE my_sp = (pre.r.sp + SpDelta(PreOp) + 256) % 256
\* RTI from SP = 0xFD ends with SP = 0x00: +3 across the wrap
C33_Witness ==
  /\ last = "step" /\ PreOp = 64 /\ pre.r.sp = 253 /\ my_sp = 0
  /\ Len(BusAddrs("rd")) = 4
\* BRK from SP = 0x00 ends with SP = 0xFD: -3 across the wrap
C33_WitnessBrk ==
  /\ last = "step" /\ PreOp = 0 /\ pre.r.sp = 0 /\ my_sp = 253
\* LDX #3 with SP = 0xFD changes X and leaves SP
C33_WitnessOther ==
  /\ last = "step" /\ PreOp = 162 /\ pre.r.sp = 253 /\ my_sp = 253
  /\ my_x = 3 /\ pre.r.x # 3

\* Runs from power-on through my6502_reset over three-byte programs at
\* 0x0400 that mix the stack instructions with any opcode byte; the
\* BRK vector points at 0x0401, so that a BRK at 0x0400 continues there.
BFlagOps == {0, 8, 40, 64, 72, 104}
BFlagPrograms ==
  {<<a, b, c>> : a \in BFlagOps, b \in BFlagOps, c \in Byte}
    \cup {<<c, a, b>> : c \in Byte, a \in BFlagOps, b \in BFlagOps}
InitBFlag ==
  InitWith({0}, {0}, {0}, {0}, {0}, {0},
           {Overlay(ProgramAt(65534, <<1, 4>>), ProgramAt(1024, p)) :
              p \in BFlagPrograms},
           "poweron", -1)
SpecBFlag == InitBFlag /\ [][Next]_vars

\* C34: after reset the in-register B flag (SR bit 4) is 0 and stays 0 until
\* the first step that executes PLP or RTI; BRK and PHP set B only in the
\* byte they push, and no instruction other than PLP and RTI writes bit 4.
C34_BFlagFromReset ==
  /\ (\A i \in 1..Len(start.ops) : start.ops[i] \notin {40, 64}) =>
       Bit(my_sr, 4) = 0
  /\ (last = "step" /\ PreOp \notin {40, 64}) =>
       Bit(my_sr, 4) = Bit(pre.r.sr, 4)
  /\ (last = "step" /\ PreOp \in {0, 8}) =>
       LET w == BusAddrs("wr")
           pushed == Peek(mem, w[Len(w)])
       IN Bit(pushed, 4) = 1
\* reset, BRK at 0x0400, PLA at 0x0401: the pushed byte 0x30 is in AC and
\* B is still 0 in SR
C34_Witness ==
  /\ last = "step" /\ start.ops = <<0, 104>> /\ my_ac = 48
  /\ Bit(my_sr, 4) = 0 /\ my_pc = 1026
\* reset, BRK, PLP: the first PLP loads B = 1 from the pushed byte
C34_WitnessPlp ==
  /\ last = "step" /\ start.ops = <<0, 40>> /\ Bit(my_sr, 4) = 1
\* reset, BRK, RTI, then an instruction that is neither PLP nor RTI keeps B = 1
C34_WitnessKept ==
  /\ last = "step" /\ start.ops = <<0, 64, 72>> /\ Bit(my_sr, 4) = 1

\* Runs of ROL A (0x2A) and ROR A (0x6A) from every AC and both carries:
\* nine of one kind, and the two alternations.
NineOf(o) == [i \in 1..9 |-> o]
Alternating(a, b) == [i \in 1..9 |-> IF i % 2 = 1 THEN a ELSE b]
RotatePrograms ==
  {NineOf(42), NineOf(106), Alternating(42, 106), Alternating(106, 42)}
InitRotate ==
  InitWith({1024}, Byte, {7}, {9}, {253}, {32, 33, 254, 255},
           {ProgramAt(1024, p) : p \in RotatePrograms},
           "running", 0 - 6)
SpecRotate == InitRotate /\ [][Next]_vars

\* C35: rotates form a 9-bit rotation through carry: for every AC and C,
\* ROL A then ROR A, and ROR A then ROL A, restore AC and C, and nine
\* ROL A steps, or nine ROR A steps, restore AC and C.
C35_NineBitRotate ==
  start.ops \in {<<42, 106>>, <<106, 42>>, NineOf(42), NineOf(106)} =>
    /\ my_ac = start.r.ac
    /\ FlagC(my_sr) = FlagC(start.r.sr)
\* nine ROL A from AC = 0x81, C = 0 end with AC = 0x81, C = 0; the ninth
\* started from AC = 0x40, C = 1
C35_Witness ==
  /\ last = "step" /\ start.ops = NineOf(42)
  /\ start.r.ac = 129 /\ FlagC(start.r.sr) = 0
  /\ pre.r.ac = 64 /\ FlagC(pre.r.sr) = 1
  /\ my_ac = 129 /\ FlagC(my_sr) = 0
\* ROR A then ROL A from AC = 0x01, C = 1: 0x80 with C = 1 in between
C35_WitnessPair ==
  /\ last = "step" /\ start.ops = <<106, 42>>
  /\ start.r.ac = 1 /\ FlagC(start.r.sr) = 1
  /\ pre.r.ac = 128 /\ FlagC(pre.r.sr) = 1
  /\ my_ac = 1 /\ FlagC(my_sr) = 1

\* The 16-bit addition R = P + Q over zero-page operands: P at 0x10/0x11,
\* Q at 0x12/0x13, R at 0x14/0x15 (low byte first), program at 0x0400:
\*   CLC; LDA $10; ADC $12; STA $14; LDA $11; ADC $13; STA $15
AddProgram == <<24, 165, 16, 101, 18, 133, 20, 165, 17, 101, 19, 133, 21>>
AddOps == <<24, 165, 101, 133, 165, 101, 133>>
AddBytes == {0, 1, 15, 127, 128, 240, 254, 255}
AddImages ==
  {Overlay(ProgramAt(1024, AddProgram), ProgramAt(16, <<pl, ph, ql, qh>>)) :
     pl \in AddBytes, ph \in AddBytes, ql \in AddBytes, qh \in AddBytes}
InitAdd16 ==
  InitWith({1024}, {129}, {7}, {9}, {253}, {32, 33, 255}, AddImages,
           "running", 0 - 4)
SpecAdd16 == InitAdd16 /\ [][Next]_vars
Word(m, a) == Peek(m, a) + (256 * Peek(m, a + 1))

\* C36: the carry chains across instructions: for 16-bit P and Q in memory,
\* CLC; LDA Plo; ADC Qlo; STA Rlo; LDA Phi; ADC Qhi; STA Rhi stores
\* R = (P + Q) mod 65536 and ends with C = (P + Q >= 65536); LDA and STA
\* leave C untouched between the two ADCs.
C36_MultiByteAdd ==
  /\ (start.r.pc = 1024 /\ start.ops = AddOps) =>
       LET P == Word(start.r.mem, 16)
           Q == Word(start.r.mem, 18)
       IN /\ Word(mem, 20) = (P + Q) % 65536
          /\ FlagC(my_sr) = Bool(P + Q >= 65536)
          /\ Word(mem, 16) = P /\ Word(mem, 18) = Q
  /\ (last = "step" /\ PreOp \in {165, 133}) =>
       FlagC(my_sr) = FlagC(pre.r.sr)
  /\ (start.r.pc = 1024 /\ Len(start.ops) \in 3..5
       /\ start.ops = SubSeq(AddOps, 1, Len(start.ops))) =>
       FlagC(my_sr) =
         Bool(Peek(start.r.mem, 16) + Peek(start.r.mem, 18) >= 256)
\* P = 0x80FF, Q = 0x7F01 from C = 1: R = 0x0000 and C = 1, the carry of
\* the low bytes having entered the high addition
C36_Witness ==
  /\ last = "step" /\ start.ops = AddOps /\ FlagC(start.r.sr) = 1
  /\ Word(start.r.mem, 16) = 33023 /\ Word(start.r.mem, 18) = 32513
  /\ Word(mem, 20) = 0 /\ FlagC(my_sr) = 1
\* P = 0x01FF, Q = 0x0001: R = 0x0200 and C = 0
C36_WitnessNoCarryOut ==
  /\ last = "step" /\ start.ops = AddOps
  /\ Word(start.r.mem, 16) = 511 /\ Word(start.r.mem, 18) = 1
  /\ Word(mem, 20) = 512 /\ FlagC(my_sr) = 0

\* Nested calls: a chain of k four-byte cells at 0x0800, cell j being
\*   JSR cell(j+1); RTS
\* and cell k+1 a lone RTS, so that k JSR steps are followed by k RTS
\* steps and nothing else touches the stack.  The image holds the illegal
\* opcode 0x02 at both entry addresses, so that a run that is reset stops
\* at its next step.
NestBase == 2048
CellOf(j) == NestBase + (4 * (j - 1))
NestProgram(k) ==
  [n \in 1..((4 * k) + 1) |->
     LET j == ((n - 1) \div 4) + 1
         r == (n - 1) % 4
     IN IF j = k + 1 \/ r = 3 THEN 96
        ELSE IF r = 0 THEN 32
        ELSE IF r = 1 THEN CellOf(j + 1) % 256
        ELSE CellOf(j + 1) \div 256]
NestDepths == {1, 2, 128, 129}
NestSPs == {0, 1, 253}
NestImage(k) ==
  Overlay(Overlay(ProgramAt(1024, <<2>>), ProgramAt(65535, <<2>>)),
          ProgramAt(NestBase, NestProgram(k)))
InitNest ==
  \E k \in NestDepths :
    InitWith({NestBase}, {129}, {7}, {9}, NestSPs, {32}, {NestImage(k)},
             "running", 2 - (2 * k))
SpecNest == InitNest /\ [][Next]_vars

\* the return address the first JSR saved: high byte at 0x0100 + SP,
\* low byte one below (modulo 256)
FirstFrame(m, sp) ==
  Peek(m, STACK_OFFSET + ((sp + 255) % 256)) + (256 * Peek(m, STACK_OFFSET + sp))

\* C37: subroutine calls nest last-in-first-out: after k nested JSR steps
\* (1 <= k <= 128, from any initial SP, across the SP wrap too) followed by
\* k RTS steps with no other stack writes, the i-th RTS returns to the byte
\* after the (k-i+1)-th JSR and SP is back at its initial value; with
\* k = 129 the first return address has been overwritten.
C37_NestedCalls ==
  LET ops == start.ops
      n == Len(ops)
      k == Cardinality({j \in 1..n : ops[j] = 32})
      i == n - k
      sp0 == start.r.sp
  IN (/\ last = "step" /\ start.r.pc = NestBase
      /\ k >= 1 /\ i \in 0..k
      /\ \A j \in 1..n : ops[j] = IF j <= k THEN 32 ELSE 96) =>
       /\ my_sp = (sp0 + (2 * i) + (512 - (2 * k))) % 256
       /\ (i >= 1 /\ k <= 128) => my_pc = CellOf(k - i + 1) + 3
       /\ (i = k /\ k <= 128) => my_sp = sp0
       /\ (i = 0 /\ k <= 128) =>
            FirstFrame(mem, sp0) = CellOf(1) + 2
       /\ (i = 0 /\ k = 129) =>
            /\ FirstFrame(mem, sp0) # CellOf(1) + 2
            /\ FirstFrame(mem, sp0) = CellOf(129) + 2
       /\ (i = k /\ k = 129) => my_pc # CellOf(1) + 3
\* 128 JSR steps and 128 RTS steps from SP = 0x01: the last RTS returns
\* to the byte after the first JSR with SP = 0x01 again
C37_Witness ==
  /\ last = "step" /\ start.r.pc = NestBase /\ start.r.sp = 1
  /\ Len(start.ops) = 256
  /\ \A j \in 1..256 : start.ops[j] = IF j <= 128 THEN 32 ELSE 96
  /\ my_pc = NestBase + 3 /\ my_sp = 1
\* 129 JSR steps from SP = 0xFD: the slots of the first frame hold the
\* return address of the 129th
C37_WitnessOverwritten ==
  /\ last = "step" /\ start.r.pc = NestBase /\ start.r.sp = 253
  /\ Len(start.ops) = 129 /\ \A j \in 1..129 : start.ops[j] = 32
  /\ FirstFrame(mem, 253) = CellOf(129) + 2
\* 129 JSR steps and 129 RTS steps: the last RTS returns into cell 129
C37_WitnessLost ==
  /\ last = "step" /\ start.r.pc = NestBase /\ Len(start.ops) = 258
  /\ \A j \in 1..258 : start.ops[j] = IF j <= 129 THEN 32 ELSE 96
  /\ my_pc = CellOf(129) + 3 /\ my_sp = start.r.sp

====
